---- MODULE Spec2Model ----
(***************************************************************************)
(* A model of the smart Odoo assistant: the keyword classifier and the     *)
(* interactive dispatch loop of smart_assistant.py, and the tool layer of  *)
(* tools/ that wraps the store's execute_kw endpoint.                      *)
(*                                                                         *)
(* Python strings are TLA+ strings; Len, SubSeq and \o act on them the way *)
(* len(), slicing and + do.                                                *)
(***************************************************************************)
EXTENDS Integers, Sequences, FiniteSets, TLC

VARIABLES
    script,        \* the assistant that runs: "smart_assistant" or "smart_assistant_optimized"
    pc,            \* position of main(): "input", "sleep", "kickoff", "cooldown", "done"
    typed,         \* the line input() last returned
    user_request,  \* local of main(): the stripped input
    complexity,    \* local of main() (optimized): "simple" or "complex"
    request_type,  \* local of main(): the classifier's category
    main_task,     \* local of main(): the Task last built
    agents_list,   \* local of main(): agents handed to the Crew
    tasks_list,    \* local of main(): tasks handed to the Crew
    max_rpm,       \* local of main() (optimized): the Crew's rate
    cost_monitor,  \* CostMonitor.costs (optimized)
    kickoffs,      \* smart_crew.kickoff() calls made since input() was last called
    events,        \* what the current iteration printed and slept, in order
    store,         \* the records of the Odoo database behind models.execute_kw
    tool_pc,       \* position of the running tool's _run(): the execute_kw call it waits for
    tool_locals,   \* the running tool, its arguments and the locals of its _run()
    rpc_calls,     \* the execute_kw calls the current _run() has issued, in order
    rpc_outcomes,  \* how the calls of rpc_calls that have ended did end, in order
    tool_return,   \* what the last _run() returned
    updates,       \* how many times OdooMultilingualProductUpdater._run() was entered
    previous_contact, \* what the tool run before this one found, when it was a contact lookup
    environ,       \* the names os.environ holds
    odoo_conn,     \* the fields of the OdooConnection object
    boot,          \* where the module code of the script is, and what its calls gave
    project_id,    \* smart_assistant_vertex_ai_fixed.py: the module's project_id, "" for None
    search_term    \* local of its main(): the extracted search term

locals == <<user_request, complexity, request_type, main_task, agents_list, tasks_list, max_rpm>>
tools == <<store, tool_pc, tool_locals, rpc_calls, rpc_outcomes, tool_return, updates,
          previous_contact>>
direct == <<project_id, search_term>>
startup == <<environ, odoo_conn, boot>>
vars == <<script, pc, typed, locals, cost_monitor, kickoffs, events, tools, direct, startup>>

(***************************************************************************)
(* Bounds                                                                  *)
(***************************************************************************)
\* A typed line is a concatenation of at most MaxWords fragments.
MaxWords == 2
\* The optimized assistant accepts at most MaxCalls requests (its counters are unbounded).
MaxCalls == 3
\* The product updater is run at most MaxUpdates times (a database takes any number).
MaxUpdates == 1
\* An OdooConnection takes at most MaxMethodCalls method calls (any number is possible).
MaxMethodCalls == 3

(***************************************************************************)
(* Python string primitives                                                *)
(***************************************************************************)
UpperCase == "ABCDEFGHIJKLMNOPQRSTUVWXYZ"
LowerCase == "abcdefghijklmnopqrstuvwxyz"
Whitespace == {" ", "\t"}

CharAt(s, i) == SubSeq(s, i, i)

\* str.lower() on the letters it changes
LowerOf ==
    [c \in {CharAt(UpperCase, i) : i \in 1..Len(UpperCase)} |->
        CharAt(LowerCase, CHOOSE i \in 1..Len(UpperCase) : CharAt(UpperCase, i) = c)]

\* str.lower() on one character
LowerChar(c) == IF c \in DOMAIN LowerOf THEN LowerOf[c] ELSE c

RECURSIVE lower(_)
\* str.lower()
lower(s) ==
    IF s = "" THEN "" ELSE LowerChar(CharAt(s, 1)) \o lower(SubSeq(s, 2, Len(s)))

RECURSIVE lstrip(_)
\* str.lstrip(): drops the leading whitespace
lstrip(s) ==
    IF s # "" /\ CharAt(s, 1) \in Whitespace THEN lstrip(SubSeq(s, 2, Len(s))) ELSE s

RECURSIVE rstrip(_)
\* str.rstrip(): drops the trailing whitespace
rstrip(s) ==
    IF s # "" /\ CharAt(s, Len(s)) \in Whitespace THEN rstrip(SubSeq(s, 1, Len(s) - 1)) ELSE s

\* str.strip(): drops the leading and the trailing whitespace
strip(s) == rstrip(lstrip(s))

\* Python's `k in s` on strings: k occurs in s as a substring
Contains(k, s) ==
    \E i \in 0..(Len(s) - Len(k)) : SubSeq(s, i + 1, i + Len(k)) = k

(***************************************************************************)
(* smart_assistant.py: the classifier                                      *)
(***************************************************************************)
customer_keywords ==
    {"customer", "client", "contact", "who is", "find customer", "customer info"}

product_keywords ==
    {"product", "item", "update product", "polish product", "create product",
     "find product", "description", "multilingual", "translate"}

email_keywords ==
    {"email", "draft", "write email", "send email", "communication", "message"}

\* the keyword test on whole-string equality instead of occurrence
AnyKeyword_equal(keywords, request_lower) == request_lower \in keywords

\* any(keyword in request_lower for keyword in keywords)
AnyKeyword(keywords, request_lower) ==
    \E keyword \in keywords : Contains(keyword, request_lower)

\* the classifier with the e-mail keywords checked first
analyze_request_type_email_first(request) ==
    LET request_lower == lower(request)
    IN  IF AnyKeyword(email_keywords, request_lower) THEN "email_communication"
        ELSE IF AnyKeyword(customer_keywords, request_lower) THEN "customer_service"
        ELSE IF AnyKeyword(product_keywords, request_lower) THEN "product_management"
        ELSE "general"

analyze_request_type(request) ==
    LET request_lower == lower(request)
    IN  IF AnyKeyword(customer_keywords, request_lower) THEN "customer_service"
        ELSE IF AnyKeyword(product_keywords, request_lower) THEN "product_management"
        ELSE IF AnyKeyword(email_keywords, request_lower) THEN "email_communication"
        ELSE "general"

(***************************************************************************)
(* smart_assistant_optimized.py: the classifier                            *)
(***************************************************************************)
simple_keywords ==
    {"customer", "who is", "find customer", "contact", "email address", "phone"}

complex_keywords ==
    {"update product", "draft email", "write email", "create", "generate", "analyze", "polish"}

\* returns the tuple (complexity, request_type)
analyze_request_complexity_complex_default(request) ==
    LET request_lower == lower(request)
    IN  IF AnyKeyword(simple_keywords, request_lower) THEN <<"simple", "customer_service">>
        ELSE IF AnyKeyword(complex_keywords, request_lower) THEN
            IF AnyKeyword({"email", "draft", "write"}, request_lower)
            THEN <<"complex", "email_communication">>
            ELSE <<"complex", "product_management">>
        ELSE <<"complex", "general">>

\* returns the tuple (complexity, request_type)
analyze_request_complexity(request) ==
    LET request_lower == lower(request)
    IN  IF AnyKeyword(simple_keywords, request_lower) THEN <<"simple", "customer_service">>
        ELSE IF AnyKeyword(complex_keywords, request_lower) THEN
            IF AnyKeyword({"email", "draft", "write"}, request_lower)
            THEN <<"complex", "email_communication">>
            ELSE <<"complex", "product_management">>
        ELSE <<"simple", "general">>

(***************************************************************************)
(* What the user types and what the backends raise                         *)
(***************************************************************************)
RECURSIVE Join(_)
Join(words) == IF words = <<>> THEN "" ELSE Head(words) \o Join(Tail(words))

\* the concatenations of at most MaxWords fragments of a vocabulary
LinesOver(vocabulary) ==
    UNION {{Join(words) : words \in [1..n -> vocabulary]} : n \in 0..MaxWords}

\* the fragments of a typed line in the interactive loop
LoopVocabulary == {" ", "exit", "QUIT", "customer", "draft email"}

\* the example requests of the welcome banner, and lines around the two guards
ExampleLines ==
    {"Who is customer Marina?", "Update product Inloopdouche 120 with modern design features",
     "Draft a follow-up email to Marina in Dutch", "hello", "create a Product",
     "\t", " Quit\t", "exit now"}

\* what input() can return in the interactive loop
TypedLines == LinesOver(LoopVocabulary) \cup ExampleLines

\* the fragments of a request when the classifier is exercised on its own
Vocabulary ==
    customer_keywords \cup product_keywords \cup email_keywords
    \cup {" ", "\t", "Customer", "EMAIL", "Marina", "hello", "it", "em"}

\* str(e) of what the crew and its LLM client raise
ErrorMessages ==
    {"429 Resource exhausted", "litellm.RateLimitError: Too Many Requests",
     "Connection refused"}

(***************************************************************************)
(* smart_assistant.py: main()                                              *)
(***************************************************************************)
\* print(fmt) with the value it interpolates; time.sleep(n) is logged alike
Event(fmt, arg) == [fmt |-> fmt, arg |-> arg]

\* Task(description=..., expected_output=..., agent=...)
Task(description, expected_output, agent) ==
    [description |-> description, expected_output |-> expected_output, agent |-> agent]

\* a local that no assignment has bound yet
Unbound == "<unbound>"
UnboundTask == Task(Event(Unbound, Unbound), Unbound, Unbound)
UnboundList == <<>>

\* Crew(agents=..., tasks=..., process=Process.sequential, verbose=True, max_rpm=...)
Crew(agents, tasks, rpm) == [agents |-> agents, tasks |-> tasks, max_rpm |-> rpm]

\* what kickoff() returns: the output of the crew's one agent on its one task
CrewOutput(crew) ==
    [agent |-> crew.agents[1], description |-> crew.tasks[1].description]

\* what a branch of the routing chain binds: the banner it prints, main_task,
\* agents_list and tasks_list
Routing(banner, task, agents) ==
    [banner |-> banner, main_task |-> task, agents_list |-> agents, tasks_list |-> <<task>>]

\* if request_type == "customer_service":
CustomerServiceRoute(request) ==
    Routing("Routing to Customer Service...",
            Task(Event("Find the customer information requested in: '{user_request}'.", request),
                 "Complete customer information including contact details and recent orders",
                 "customer_service_agent"),
            <<"customer_service_agent">>)

\* the product branch fanning out to two agents
ProductManagementRoute_fanout(request) ==
    Routing("Routing to Product Management...",
            Task(Event("Handle the product management request: '{user_request}'.", request),
                 "Complete product management action with results",
                 "product_specialist"),
            <<"product_specialist", "customer_service_agent">>)

\* elif request_type == "product_management":
ProductManagementRoute(request) ==
    Routing("Routing to Product Management...",
            Task(Event("Handle the product management request: '{user_request}'.", request),
                 "Complete product management action with results",
                 "product_specialist"),
            <<"product_specialist">>)

\* elif request_type == "email_communication":
EmailCommunicationRoute(request) ==
    Routing("Routing to Email Communication...",
            Task(Event("Draft the requested email: '{user_request}'.", request),
                 "A complete professional email draft with subject line and body",
                 "email_communication_agent"),
            <<"email_communication_agent">>)

\* the general branch handing the request to the e-mail agent
GeneralAssistanceRoute_email(request) ==
    Routing("Routing to General Assistance...",
            Task(Event("Provide helpful assistance for this general request: '{user_request}'.",
                       request),
                 "A helpful response addressing the user's request as best as possible.",
                 "email_communication_agent"),
            <<"email_communication_agent">>)

\* else:
GeneralAssistanceRoute(request) ==
    Routing("Routing to General Assistance...",
            Task(Event("Provide helpful assistance for this general request: '{user_request}'.",
                       request),
                 "A helpful response addressing the user's request as best as possible.",
                 "customer_service_agent"),
            <<"customer_service_agent">>)

\* the if/elif/else chain on request_type
Dispatch(type, request) ==
    IF type = "customer_service" THEN CustomerServiceRoute(request)
    ELSE IF type = "product_management" THEN ProductManagementRoute(request)
    ELSE IF type = "email_communication" THEN EmailCommunicationRoute(request)
    ELSE GeneralAssistanceRoute(request)

\* delay = random.uniform(5, 8), at its two ends
Delays == {5, 8}

\* the guards applied to the line as typed, without strip()
Accept_unstripped(line) ==
    [user_request |-> line,
     verdict |-> IF lower(line) \in {"exit", "quit"} THEN "break"
                 ELSE IF line = "" THEN "continue"
                 ELSE "accepted"]

\* user_request = input(...).strip() and the two guards that follow it:
\* the request, and whether the loop breaks, continues or goes on with it
Accept(line) ==
    LET stripped == strip(line)
    IN  [user_request |-> stripped,
         verdict |-> IF lower(stripped) \in {"exit", "quit"} THEN "break"
                     ELSE IF stripped = "" THEN "continue"
                     ELSE "accepted"]

\* Accept on every line that can be typed, evaluated once
Accepted == [line \in TypedLines |-> Accept(line)]

\* input() returns a line: exit/quit ends the loop, an empty request is
\* rejected, any other request goes on to the routing
ReadInput ==
    /\ script = "smart_assistant"
    /\ pc = "input"
    /\ \E line \in TypedLines :
        LET a == Accepted[line] IN
        /\ typed' = line
        /\ user_request' = a.user_request
        /\ IF a.verdict = "break"
           THEN /\ events' = <<Event("Goodbye!", "")>>
                /\ pc' = "done"
           ELSE IF a.verdict = "continue"
           THEN /\ events' = <<Event("Please enter your request.", "")>>
                /\ pc' = "input"
           ELSE /\ events' = <<Event("Processing your request: '{user_request}'",
                                     a.user_request)>>
                /\ pc' = "sleep"
    /\ kickoffs' = 0
    /\ UNCHANGED <<tools, direct>>
    /\ UNCHANGED <<startup, script, complexity, request_type, main_task, agents_list, tasks_list,
                   max_rpm, cost_monitor>>

\* time.sleep(delay), analyze_request_type and the if/elif chain, up to Crew(...)
Route ==
    /\ script = "smart_assistant"
    /\ pc = "sleep"
    /\ \E delay \in Delays :
        LET type == analyze_request_type(user_request)
            d    == Dispatch(type, user_request)
        IN  /\ request_type' = type
            /\ main_task' = d.main_task
            /\ agents_list' = d.agents_list
            /\ tasks_list' = d.tasks_list
            /\ events' = events \o
                 << Event("time.sleep", delay),
                    Event("Request type identified: {request_type}", type),
                    Event(d.banner, "") >>
    /\ pc' = "kickoff"
    /\ UNCHANGED <<tools, direct>>
    /\ UNCHANGED <<startup, script, typed, user_request, complexity, max_rpm, cost_monitor, kickoffs>>

\* the except Exception clause of the loop, up to where it blocks or continues:
\* a rate-limit error is announced and the cooldown begins, any other error
\* is printed and the loop continues
HandleException(error_msg) ==
    IF Contains("429", error_msg) \/ Contains("Too Many Requests", error_msg)
    THEN [printed |-> <<Event("Rate limit exceeded. Waiting 30 seconds...", "")>>,
          pc |-> "cooldown"]
    ELSE [printed |-> << Event("An error occurred: {e}", error_msg),
                         Event("Please try again with a different request.", "") >>,
          pc |-> "input"]

\* result = smart_crew.kickoff() returns and the result is printed
KickoffReturns ==
    /\ script = "smart_assistant"
    /\ pc = "kickoff"
    /\ LET smart_crew == Crew(agents_list, tasks_list, 3)
       IN  events' = events \o
             << Event("TASK COMPLETE! Here's your result:", ""),
                Event("print(result)", CrewOutput(smart_crew)) >>
    /\ kickoffs' = kickoffs + 1
    /\ pc' = "input"
    /\ UNCHANGED <<tools, direct>>
    /\ UNCHANGED <<startup, script, typed, locals, cost_monitor>>

\* smart_crew.kickoff() raises and nothing catches it: main() ends
KickoffRaises_propagates ==
    /\ script = "smart_assistant"
    /\ pc = "kickoff"
    /\ \E error_msg \in ErrorMessages :
        events' = events \o <<Event("Traceback: {e}", error_msg)>>
    /\ pc' = "done"
    /\ kickoffs' = kickoffs + 1
    /\ UNCHANGED <<tools, direct>>
    /\ UNCHANGED <<startup, script, typed, locals, cost_monitor>>

\* smart_crew.kickoff() raises: except Exception handles the error
KickoffRaises ==
    /\ script = "smart_assistant"
    /\ pc = "kickoff"
    /\ \E error_msg \in ErrorMessages :
        LET h == HandleException(error_msg)
        IN  /\ events' = events \o h.printed
            /\ pc' = h.pc
    /\ kickoffs' = kickoffs + 1
    /\ UNCHANGED <<tools, direct>>
    /\ UNCHANGED <<startup, script, typed, locals, cost_monitor>>

\* after the cooldown the crew is kicked off again for the same request
CooldownEnds_retries ==
    /\ script = "smart_assistant"
    /\ pc = "cooldown"
    /\ kickoffs < 2
    /\ events' = events \o <<Event("time.sleep", 30)>>
    /\ pc' = "kickoff"
    /\ UNCHANGED <<tools, direct>>
    /\ UNCHANGED <<startup, script, typed, locals, cost_monitor, kickoffs>>

\* time.sleep(30) of the except clause returns; the loop continues
CooldownEnds ==
    /\ script = "smart_assistant"
    /\ pc = "cooldown"
    /\ events' = events \o << Event("time.sleep", 30),
                               Event("Please try again with a different request.", "") >>
    /\ pc' = "input"
    /\ UNCHANGED <<tools, direct>>
    /\ UNCHANGED <<startup, script, typed, locals, cost_monitor, kickoffs>>

\* Ctrl-C during time.sleep(30) of the except clause: no handler is left, the
\* KeyboardInterrupt leaves main()
CooldownInterrupted ==
    /\ script = "smart_assistant"
    /\ pc = "cooldown"
    /\ events' = events \o <<Event("Traceback: KeyboardInterrupt", "")>>
    /\ pc' = "done"
    /\ UNCHANGED <<tools, direct>>
    /\ UNCHANGED <<startup, script, typed, locals, cost_monitor, kickoffs>>

\* input() raises EOFError, an Exception: the loop reports it and continues
InputRaises ==
    /\ script = "smart_assistant"
    /\ pc = "input"
    /\ LET h == HandleException("EOF when reading a line")
       IN  /\ events' = h.printed
           /\ pc' = h.pc
    /\ kickoffs' = 0
    /\ UNCHANGED <<tools, direct>>
    /\ UNCHANGED <<startup, script, typed, locals, cost_monitor>>

\* Ctrl-C while the loop waits in input(), time.sleep() or kickoff()
KeyboardInterrupt ==
    /\ script = "smart_assistant"
    /\ pc \in {"input", "sleep", "kickoff"}
    /\ events' = (IF pc = "input" THEN <<>> ELSE events)
                   \o <<Event("Operation cancelled by user. Goodbye!", "")>>
    /\ kickoffs' = (IF pc = "input" THEN 0 ELSE kickoffs)
    /\ pc' = "done"
    /\ UNCHANGED <<tools, direct>>
    /\ UNCHANGED <<startup, script, typed, locals, cost_monitor>>

(***************************************************************************)
(* smart_assistant_optimized.py: CostMonitor and main()                    *)
(***************************************************************************)
\* CostMonitor.pricing, in thousandths of a dollar (0.03 and 0.10)
pricing == [flash |-> 30, pro |-> 100]

\* CostMonitor.track_call(llm_type): the counters after the call
track_call(costs, llm_type) ==
    IF llm_type = "flash"
    THEN [costs EXCEPT !.flash_calls = @ + 1,
                       !.total_estimated_cost = @ + pricing.flash]
    ELSE [costs EXCEPT !.pro_calls = @ + 1,
                       !.total_estimated_cost = @ + pricing.pro]

\* print(cost_monitor.get_summary())
get_summary(costs) == Event("Cost Summary:", costs)

\* the if complexity == "simple" / else block: what it binds, or the
\* UnboundLocalError of tasks_list = [main_task] when no branch bound main_task
OptimizedDispatch(cx, type, request, old_task, old_agents) ==
    IF cx = "simple" THEN
        LET task == Task(
                Event("Handle this simple request efficiently: '{user_request}'.", request),
                "Clear, direct response to the user's request",
                "customer_agent_flash")
        IN  [raises |-> FALSE, banner |-> "Routing to FLASH LLM (ultra-fast & cheap)",
             llm_type |-> "flash", main_task |-> task,
             agents_list |-> <<"customer_agent_flash">>, tasks_list |-> <<task>>,
             max_rpm |-> 10]
    ELSE
        LET bound ==
                IF type = "email_communication" THEN
                    [main_task |-> Task(
                        Event("Handle this email request professionally: '{user_request}'.", request),
                        "Professional email draft with proper formatting and tone",
                        "email_agent_pro"),
                     agents_list |-> <<"email_agent_pro">>]
                ELSE IF type = "product_management" THEN
                    [main_task |-> Task(
                        Event("Handle this product management request: '{user_request}'.", request),
                        "Complete product management results with multilingual content",
                        "product_agent_pro"),
                     agents_list |-> <<"product_agent_pro">>]
                ELSE [main_task |-> old_task, agents_list |-> old_agents]
        IN  [raises |-> bound.main_task = UnboundTask,
             banner |-> "Routing to PRO LLM (balanced quality & cost)",
             llm_type |-> "pro", main_task |-> bound.main_task,
             agents_list |-> bound.agents_list, tasks_list |-> <<bound.main_task>>,
             max_rpm |-> 5]

\* the except Exception clause of the optimized loop, up to where it blocks
\* or continues
OptimizedHandleException(error_msg) ==
    IF Contains("429", error_msg) \/ Contains("Too Many Requests", error_msg)
    THEN [printed |-> <<Event("Rate limit exceeded. Waiting 30 seconds...", "")>>,
          pc |-> "cooldown"]
    ELSE [printed |-> << Event("An error occurred: {e}", error_msg),
                         Event("Please try again with a different request.", "") >>,
          pc |-> "input"]

\* delay = random.uniform(3, 6), at its two ends
OptimizedDelays == {3, 6}

\* user_request = input(...).strip() and the two guards that follow it
OptimizedAccept(line) ==
    LET stripped == strip(line)
    IN  [user_request |-> stripped,
         verdict |-> IF lower(stripped) \in {"exit", "quit"} THEN "break"
                     ELSE IF stripped = "" THEN "continue"
                     ELSE "accepted",
         analysis |-> analyze_request_complexity(stripped)]

\* OptimizedAccept on every line that can be typed, evaluated once
OptimizedAccepted == [line \in TypedLines |-> OptimizedAccept(line)]

\* input(), the two guards, analyze_request_complexity and the routing block
OptimizedReadInput ==
    /\ script = "smart_assistant_optimized"
    /\ pc = "input"
    /\ kickoffs' = 0
    /\ UNCHANGED <<tools, direct>>
    /\ UNCHANGED <<startup, script>>
    /\ \E line \in TypedLines :
        LET a == OptimizedAccepted[line]
            stripped == a.user_request
        IN
        /\ typed' = line
        /\ user_request' = stripped
        /\ IF a.verdict = "break"
           THEN /\ events' = <<Event("Goodbye!", ""), get_summary(cost_monitor)>>
                /\ pc' = "done"
                /\ UNCHANGED <<complexity, request_type, main_task, agents_list,
                               tasks_list, max_rpm, cost_monitor>>
           ELSE IF a.verdict = "continue"
           THEN /\ events' = <<Event("Please enter your request.", "")>>
                /\ pc' = "input"
                /\ UNCHANGED <<complexity, request_type, main_task, agents_list,
                               tasks_list, max_rpm, cost_monitor>>
           ELSE LET analysis == a.analysis
                    d == OptimizedDispatch(analysis[1], analysis[2], stripped,
                                           main_task, agents_list)
                    printed ==
                        << Event("Processing your request: '{user_request}'", stripped),
                           Event("Request analysis: {complexity} {request_type}", analysis),
                           Event(d.banner, ""),
                           Event("Cost tracking: {llm_type} LLM call", d.llm_type) >>
                IN  /\ cost_monitor.flash_calls + cost_monitor.pro_calls < MaxCalls
                    /\ complexity' = analysis[1]
                    /\ request_type' = analysis[2]
                    /\ cost_monitor' = track_call(cost_monitor, d.llm_type)
                    /\ main_task' = d.main_task
                    /\ agents_list' = d.agents_list
                    /\ IF d.raises
                       THEN LET h == OptimizedHandleException(
                                        "cannot access local variable 'main_task'")
                            IN  /\ events' = printed \o h.printed
                                /\ pc' = h.pc
                                /\ UNCHANGED <<tasks_list, max_rpm>>
                       ELSE /\ events' = printed
                            /\ tasks_list' = d.tasks_list
                            /\ max_rpm' = d.max_rpm
                            /\ pc' = "sleep"

\* time.sleep(delay), up to Crew(...)
OptimizedSleep ==
    /\ script = "smart_assistant_optimized"
    /\ pc = "sleep"
    /\ \E delay \in OptimizedDelays :
        events' = events \o <<Event("time.sleep", delay)>>
    /\ pc' = "kickoff"
    /\ UNCHANGED <<tools, direct>>
    /\ UNCHANGED <<startup, script, typed, locals, cost_monitor, kickoffs>>

\* result = smart_crew.kickoff() returns; the result and, every third call,
\* the cost summary are printed
OptimizedKickoffReturns ==
    /\ script = "smart_assistant_optimized"
    /\ pc = "kickoff"
    /\ LET smart_crew == Crew(agents_list, tasks_list, max_rpm)
           total_calls == cost_monitor.flash_calls + cost_monitor.pro_calls
       IN  events' = events \o
             << Event("TASK COMPLETE! Here's your result:", ""),
                Event("print(result)", CrewOutput(smart_crew)) >>
             \o (IF total_calls > 0 /\ total_calls % 3 = 0
                 THEN <<get_summary(cost_monitor)>> ELSE <<>>)
    /\ kickoffs' = kickoffs + 1
    /\ pc' = "input"
    /\ UNCHANGED <<tools, direct>>
    /\ UNCHANGED <<startup, script, typed, locals, cost_monitor>>

\* smart_crew.kickoff() raises: except Exception handles the error
OptimizedKickoffRaises ==
    /\ script = "smart_assistant_optimized"
    /\ pc = "kickoff"
    /\ \E error_msg \in ErrorMessages :
        LET h == OptimizedHandleException(error_msg)
        IN  /\ events' = events \o h.printed
            /\ pc' = h.pc
    /\ kickoffs' = kickoffs + 1
    /\ UNCHANGED <<tools, direct>>
    /\ UNCHANGED <<startup, script, typed, locals, cost_monitor>>

\* time.sleep(30) of the except clause returns; the loop continues
OptimizedCooldownEnds ==
    /\ script = "smart_assistant_optimized"
    /\ pc = "cooldown"
    /\ events' = events \o << Event("time.sleep", 30),
                               Event("Please try again with a different request.", "") >>
    /\ pc' = "input"
    /\ UNCHANGED <<tools, direct>>
    /\ UNCHANGED <<startup, script, typed, locals, cost_monitor, kickoffs>>

\* Ctrl-C during time.sleep(30) of the except clause: no handler is left, the
\* KeyboardInterrupt leaves main()
OptimizedCooldownInterrupted ==
    /\ script = "smart_assistant_optimized"
    /\ pc = "cooldown"
    /\ events' = events \o <<Event("Traceback: KeyboardInterrupt", "")>>
    /\ pc' = "done"
    /\ UNCHANGED <<tools, direct>>
    /\ UNCHANGED <<startup, script, typed, locals, cost_monitor, kickoffs>>

\* input() raises EOFError, an Exception: the loop reports it and continues
OptimizedInputRaises ==
    /\ script = "smart_assistant_optimized"
    /\ pc = "input"
    /\ LET h == OptimizedHandleException("EOF when reading a line")
       IN  /\ events' = h.printed
           /\ pc' = h.pc
    /\ kickoffs' = 0
    /\ UNCHANGED <<tools, direct>>
    /\ UNCHANGED <<startup, script, typed, locals, cost_monitor>>

\* Ctrl-C while the loop waits in input(), time.sleep() or kickoff()
OptimizedKeyboardInterrupt ==
    /\ script = "smart_assistant_optimized"
    /\ pc \in {"input", "sleep", "kickoff"}
    /\ events' = (IF pc = "input" THEN <<>> ELSE events)
                   \o << Event("Operation cancelled by user. Goodbye!", ""),
                         get_summary(cost_monitor) >>
    /\ kickoffs' = (IF pc = "input" THEN 0 ELSE kickoffs)
    /\ pc' = "done"
    /\ UNCHANGED <<tools, direct>>
    /\ UNCHANGED <<startup, script, typed, locals, cost_monitor>>

(***************************************************************************)
(* The Odoo database that models.execute_kw reaches                        *)
(***************************************************************************)
\* an empty relational or text field comes back as False, printed "False"
False == "False"

\* res.partner
res_partner ==
    {[id |-> 7, name |-> "Marina Peeters", email |-> "marina@example.com",
      phone |-> "+32 470 11 22 33", mobile |-> False, street |-> "Kerkstraat 1",
      city |-> "Gent", country_id |-> <<20, "Belgium">>],
     [id |-> 9, name |-> "MARINA PEETERS", email |-> False, phone |-> False,
      mobile |-> False, street |-> False, city |-> False, country_id |-> <<>>],
     [id |-> 12, name |-> "Brico NV", email |-> "info@brico.example",
      phone |-> "+32 2 555 01 01", mobile |-> False, street |-> "Havenlaan 8",
      city |-> "Brussel", country_id |-> <<20, "Belgium">>]}

\* date_order, "YYYY-MM-DD HH:MM:SS": the ten characters of the day and the rest
Datetime(day, clock) == [day |-> day, clock |-> clock]

SaleOrder(id, name, partner_id, day, state, amount_total) ==
    [id |-> id, name |-> name, partner_id |-> partner_id,
     date_order |-> Datetime(day, "09:30:00"), state |-> state,
     amount_total |-> amount_total]

\* sale.order
sale_order ==
    {SaleOrder(31, "S00031", 7, 20240105, "sale", 120),
     SaleOrder(32, "S00032", 7, 20240212, "sale", 80),
     SaleOrder(33, "S00033", 7, 20240320, "done", 45),
     SaleOrder(34, "S00034", 7, 20240402, "cancel", 15),
     SaleOrder(35, "S00035", 7, 20240511, "draft", 300),
     SaleOrder(36, "S00036", 7, 20240618, "sale", 60),
     SaleOrder(37, "S00037", 12, 20240701, "sale", 10)}

\* product.product, description_sale in the source language en_US
product_product ==
    {[id |-> 41, name |-> "Garden Chair", list_price |-> 49,
      categ_id |-> <<3, "Furniture">>, description_sale |-> "A chair"],
     [id |-> 42, name |-> "garden chair", list_price |-> 59,
      categ_id |-> <<>>, description_sale |-> False],
     [id |-> 43, name |-> "Price Tag", list_price |-> 2,
      categ_id |-> <<5, "Labels">>, description_sale |-> "A tag"]}

\* ir.translation records of product.product,description_sale
Translation(id, res_id, lang, value) ==
    [id |-> id, name |-> "product.product,description_sale", res_id |-> res_id,
     lang |-> lang, value |-> value]

ir_translation == {Translation(1, 41, "nl_NL", "Een tuinstoel")}

Database ==
    [res_partner |-> res_partner, sale_order |-> sale_order,
     product_product |-> product_product, ir_translation |-> ir_translation]

\* the table of a model name
Table(db, model) ==
    CASE model = "res.partner" -> db.res_partner
      [] model = "sale.order" -> db.sale_order
      [] model = "product.product" -> db.product_product
      [] model = "ir.translation" -> db.ir_translation

\* LIKE: % matches any run of characters, _ matches one
RECURSIVE Like(_, _)
Like(pattern, s) ==
    IF pattern = "" THEN s = ""
    ELSE LET p == CharAt(pattern, 1)
             rest == SubSeq(pattern, 2, Len(pattern))
         IN IF p = "%"
            THEN Like(rest, s) \/ (s # "" /\ Like(pattern, SubSeq(s, 2, Len(s))))
            ELSE /\ s # ""
                 /\ p = "_" \/ p = CharAt(s, 1)
                 /\ Like(rest, SubSeq(s, 2, Len(s)))

\* a record against a search domain, the leaves of which are all to hold
Satisfies(record, domain) ==
    \A i \in 1..Len(domain) :
        LET field == domain[i][1]
            operator == domain[i][2]
            value == domain[i][3]
        IN IF operator = "=ilike"
           THEN Like(lower(value), lower(record[field]))
           ELSE record[field] = value

\* the records of a set as a list in ascending order of an integer key
RECURSIVE Ordered(_, _)
Ordered(records, key) ==
    IF records = {} THEN <<>>
    ELSE LET first == CHOOSE r \in records : \A o \in records : key[r] <= key[o]
         IN <<first>> \o Ordered(records \ {first}, key)

Limit_unbounded(list, n) == list

\* limit: the first n of a list
Limit(list, n) == SubSeq(list, 1, IF Len(list) < n THEN Len(list) ELSE n)

\* the requested fields of a record, and its id
Project(record, fields) == [f \in fields \cup {"id"} |-> record[f]]

ProjectAll(list, fields) == [i \in 1..Len(list) |-> Project(list[i], fields)]

(***************************************************************************)
(* models.execute_kw(db, uid, password, model, method, args, kwargs)       *)
(***************************************************************************)
Args(domain, ids, values) == [domain |-> domain, ids |-> ids, values |-> values]

\* limit 0 and order "" stand for a call that passes neither; so does lang ""
Kwargs(fields, limit, order, lang) ==
    [fields |-> fields, limit |-> limit, order |-> order, context |-> [lang |-> lang]]

Call(model, method, args, kwargs) ==
    [model |-> model, method |-> method, args |-> args, kwargs |-> kwargs]

\* how a call ends: with the server's answer, or with an exception
Returned(value, db) == [raised |-> FALSE, value |-> value, e |-> "", store |-> db]
Raised(e, db) == [raised |-> TRUE, value |-> <<>>, e |-> e, store |-> db]

\* description_sale of a product as the server renders it under a language
Translated(db, product, lang) ==
    LET records == {t \in db.ir_translation :
                        t.res_id = product.id /\ t.lang = lang /\ t.value # ""}
    IN IF lang \in {"", "en_US"} \/ records = {}
       THEN product.description_sale
       ELSE (CHOOSE t \in records : \A o \in records : t.id <= o.id).value

\* a search that passes no order lists its matches in an order of the
\* server's choice: by id, or by id the other way round
search_read(db, call, listing) ==
    LET matches == {r \in Table(db, call.model) : Satisfies(r, call.args.domain)}
        key == IF call.kwargs.order = "date_order desc"
               THEN [r \in matches |-> 0 - r.date_order.day]
               ELSE IF listing = "id desc"
               THEN [r \in matches |-> 0 - r.id]
               ELSE [r \in matches |-> r.id]
        list == Ordered(matches, key)
        page == IF call.kwargs.limit > 0 THEN Limit(list, call.kwargs.limit) ELSE list
    IN Returned(ProjectAll(page, call.kwargs.fields), db)

\* read of product.product
read_consuming(db, call) ==
    LET id == call.args.ids[1]
        found == {p \in db.product_product : p.id = id}
    IN Returned(IF found = {} THEN <<>>
                ELSE LET product == CHOOSE p \in found : TRUE
                     IN <<[id |-> id, description_sale |->
                             Translated(db, product, call.kwargs.context.lang)]>>,
                [db EXCEPT !.product_product = @ \ found])

\* read of product.product: the records of the ids that exist
read(db, call) ==
    LET id == call.args.ids[1]
        found == {p \in db.product_product : p.id = id}
    IN Returned(IF found = {} THEN <<>>
                ELSE LET product == CHOOSE p \in found : TRUE
                     IN <<[id |-> id, description_sale |->
                             Translated(db, product, call.kwargs.context.lang)]>>,
                db)

NextId(records) ==
    IF records = {} THEN 1
    ELSE 1 + (CHOOSE n \in {r.id : r \in records} : \A r \in records : r.id <= n)

MissingError == "Record does not exist or has been deleted."

\* the translation of a product's description_sale is set, the record of
\* the language made when there is none
SetTranslation(translations, res_id, lang, value) ==
    IF \E t \in translations : t.res_id = res_id /\ t.lang = lang
    THEN {IF t.res_id = res_id /\ t.lang = lang
          THEN [t EXCEPT !.value = value] ELSE t : t \in translations}
    ELSE translations \cup {Translation(NextId(translations), res_id, lang, value)}

write(db, call) ==
    LET id == call.args.ids[1]
        lang == call.kwargs.context.lang
    IN IF \A r \in Table(db, call.model) : r.id # id
       THEN Raised(MissingError, db)
       ELSE IF call.model = "ir.translation"
       THEN Returned(TRUE, [db EXCEPT !.ir_translation =
                {IF t.id = id THEN [t EXCEPT !.value = call.args.values.value] ELSE t :
                    t \in db.ir_translation}])
       ELSE IF lang \in {"", "en_US"}
       THEN Returned(TRUE, [db EXCEPT !.product_product =
                {IF p.id = id
                 THEN [p EXCEPT !.description_sale = call.args.values.description_sale]
                 ELSE p : p \in db.product_product}])
       ELSE Returned(TRUE, [db EXCEPT !.ir_translation =
                SetTranslation(db.ir_translation, id, lang,
                               call.args.values.description_sale)])

create(db, call) ==
    LET id == NextId(db.ir_translation)
        data == call.args.values
    IN Returned(id, [db EXCEPT !.ir_translation =
                        @ \cup {Translation(id, data.res_id, data.lang, data.value)}])

\* the transport and the server may fail any call
RpcErrors == {"[Errno 111] Connection refused", "<Fault 3: 'Access Denied'>"}

\* how a call can end: served, failed with an error, or, for a write, answered
\* False, or, for a write under a language context, answered True by a server
\* that stored nothing
Outcomes(call) ==
    {<<"raised", e>> : e \in RpcErrors}
        \cup (IF call.method = "write" THEN {<<"refused", "">>} ELSE {})
        \cup (IF call.method = "write" /\ call.kwargs.context.lang # ""
              THEN {<<"unapplied", "">>}
              ELSE {})
        \cup (IF /\ call.method = "search_read"
                 /\ call.kwargs.order = ""
                 /\ Cardinality({r \in Table(store, call.model) :
                                    Satisfies(r, call.args.domain)}) > 1
              THEN {<<"served", "id">>, <<"served", "id desc">>}
              ELSE {<<"served", "">>})

execute_kw(db, call, outcome) ==
    IF outcome[1] = "raised" THEN Raised(outcome[2], db)
    ELSE IF outcome[1] = "unapplied" THEN Returned(TRUE, db)
    ELSE IF outcome[1] = "refused" THEN Returned(FALSE, db)
    ELSE CASE call.method = "search_read" -> search_read(db, call, outcome[2])
           [] call.method = "read" -> read(db, call)
           [] call.method = "write" -> write(db, call)
           [] call.method = "create" -> create(db, call)

(***************************************************************************)
(* tools/odoo_connection.py: OdooConnection, and the module code of         *)
(* smart_assistant.py that runs before main()                              *)
(***************************************************************************)
None == "None"

\* Python's truth value of what authenticate returns or __init__ assigns
Truthy(value) == value \notin {None, False, "0", ""}

EnvNames == <<"ODOO_URL", "ODOO_DB", "ODOO_USERNAME", "ODOO_PASSWORD">>
EnvValues == [ODOO_URL |-> "https://odoo.example.com", ODOO_DB |-> "odoo",
              ODOO_USERNAME |-> "admin", ODOO_PASSWORD |-> "secret"]

Range(list) == {list[n] : n \in 1..Len(list)}

\* the .env file is complete, or lacks one name
Environs == {Range(EnvNames)} \cup {Range(EnvNames) \ {name} : name \in Range(EnvNames)}

\* OdooConnection.__init__
OdooConnectionInit ==
    [url |-> None, db |-> None, username |-> None, password |-> None,
     uid |-> None, models |-> None, common |-> None]

\* the four os.environ[...] reads of connect(), up to the first KeyError
ReadEnviron(conn, env) ==
    LET missing == {n \in 1..Len(EnvNames) : EnvNames[n] \notin env}
        reached(n) == \A m \in missing : n < m
    IN [conn EXCEPT !.url = IF reached(1) THEN EnvValues.ODOO_URL ELSE @,
                    !.db = IF reached(2) THEN EnvValues.ODOO_DB ELSE @,
                    !.username = IF reached(3) THEN EnvValues.ODOO_USERNAME ELSE @,
                    !.password = IF reached(4) THEN EnvValues.ODOO_PASSWORD ELSE @]

\* what common.authenticate returns: a user id, or False for wrong credentials
Uids == {"2", False}

\* how the calls of the startup can end
VersionOutcomes == {<<"served", "17.0">>} \cup {<<"raised", e>> : e \in RpcErrors}
AuthenticateOutcomes == {<<"served", uid>> : uid \in Uids} \cup {<<"raised", e>> : e \in RpcErrors}
TestOutcomes ==
    {<<"served", "Administrator">>, <<"served", "">>} \cup {<<"raised", e>> : e \in RpcErrors}

\* the script prints its message and calls exit()
Exit(returned) ==
    boot' = [returned EXCEPT !.pc = "exited"]

\* a remote call of the startup is issued, or has ended
Issued(b, method, at) == [b EXCEPT !.pc = at, !.calls = Append(@, method)]
Ended(b, outcome) == [b EXCEPT !.outcomes = Append(@, outcome)]

LoopWaits ==
    UNCHANGED <<script, pc, typed, locals, cost_monitor, kickoffs, events, tools, direct>>

\* odoo_conn.connect() up to common.version(), or to its KeyError
Connect ==
    /\ boot.pc = "connect"
    /\ odoo_conn' = LET conn == ReadEnviron(odoo_conn, environ)
                    IN IF environ = Range(EnvNames)
                       THEN [conn EXCEPT !.common = "ServerProxy", !.models = "ServerProxy"]
                       ELSE conn
    /\ IF environ = Range(EnvNames)
       THEN boot' = Issued(boot, "version", "version")
       ELSE Exit([boot EXCEPT !.connect = "False"])
    /\ UNCHANGED environ
    /\ LoopWaits

\* common.version() ends: on to common.authenticate, or connect() returns False
VersionAnswers ==
    /\ boot.pc = "version"
    /\ \E outcome \in VersionOutcomes :
        IF outcome[1] = "served"
        THEN boot' = Issued(Ended(boot, outcome), "authenticate", "authenticate")
        ELSE Exit([Ended(boot, outcome) EXCEPT !.connect = "False"])
    /\ UNCHANGED <<environ, odoo_conn>>
    /\ LoopWaits

\* common.authenticate ends
AuthenticateAnswers_served ==
    /\ boot.pc = "authenticate"
    /\ \E outcome \in AuthenticateOutcomes :
        IF outcome[1] = "served"
        THEN /\ odoo_conn' = [odoo_conn EXCEPT !.uid = outcome[2]]
             /\ boot' = Issued([Ended(boot, outcome) EXCEPT !.connect = "True"],
                               "execute_kw", "test_connection")
        ELSE /\ Exit([Ended(boot, outcome) EXCEPT !.connect = "False"])
             /\ UNCHANGED odoo_conn
    /\ UNCHANGED environ
    /\ LoopWaits

\* common.authenticate ends: connect() returns, and with True the script
\* goes on to test_connection() and its read of res.users
AuthenticateAnswers ==
    /\ boot.pc = "authenticate"
    /\ \E outcome \in AuthenticateOutcomes :
        IF outcome[1] = "served"
        THEN /\ odoo_conn' = [odoo_conn EXCEPT !.uid = outcome[2]]
             /\ IF Truthy(outcome[2])
                THEN boot' = Issued([Ended(boot, outcome) EXCEPT !.connect = "True"],
                                    "execute_kw", "test_connection")
                ELSE Exit([Ended(boot, outcome) EXCEPT !.connect = "False"])
        ELSE /\ Exit([Ended(boot, outcome) EXCEPT !.connect = "False"])
             /\ UNCHANGED odoo_conn
    /\ UNCHANGED environ
    /\ LoopWaits

\* the read of res.users ends
TestConnectionAnswers_unchecked ==
    /\ boot.pc = "test_connection"
    /\ \E outcome \in TestOutcomes :
        LET result == IF outcome[1] = "served" /\ outcome[2] # "" THEN "True" ELSE "False"
        IN boot' = [Ended(boot, outcome) EXCEPT !.test_connection = result,
                                               !.tools = TRUE, !.pc = "main"]
    /\ UNCHANGED <<environ, odoo_conn>>
    /\ LoopWaits

\* the read of res.users ends: test_connection() returns, and with True the
\* script builds its tools, agents and crew and calls main()
TestConnectionAnswers ==
    /\ boot.pc = "test_connection"
    /\ \E outcome \in TestOutcomes :
        LET result == IF outcome[1] = "served" /\ outcome[2] # "" THEN "True" ELSE "False"
            returned == [Ended(boot, outcome) EXCEPT !.test_connection = result]
        IN IF result = "True"
           THEN boot' = [returned EXCEPT !.tools = TRUE, !.pc = "main"]
           ELSE Exit(returned)
    /\ UNCHANGED <<environ, odoo_conn>>
    /\ LoopWaits

\* the script has been started: odoo_conn = OdooConnection()
Booting ==
    /\ environ \in Environs
    /\ odoo_conn = OdooConnectionInit
    /\ boot = [pc |-> "connect", calls |-> <<>>, outcomes |-> <<>>,
               connect |-> Unbound, test_connection |-> Unbound, tools |-> FALSE]

\* the startup went through: main() runs
Started ==
    /\ environ = Range(EnvNames)
    /\ odoo_conn = [ReadEnviron(OdooConnectionInit, Range(EnvNames)) EXCEPT
                        !.common = "ServerProxy", !.models = "ServerProxy", !.uid = "2"]
    /\ boot = [pc |-> "main", calls |-> <<"version", "authenticate", "execute_kw">>,
               outcomes |-> <<<<"served", "17.0">>, <<"served", "2">>,
                              <<"served", "Administrator">>>>,
               connect |-> "True", test_connection |-> "True", tools |-> TRUE]

(***************************************************************************)
(* tools/customer_tools.py: OdooCustomerInfoTool                           *)
(***************************************************************************)
\* an f-string: its template and the values it interpolates; the cross and
\* check marks of the templates are written (x) and (v)
Text(fmt, args) == [fmt |-> fmt, args |-> args]

NoReturn == Text(Unbound, <<>>)

\* no _run() is under way
Resting == {"idle", "returned", "raised"}

\* the execute_kw call that _run() waits for
Pending == rpc_calls[Len(rpc_calls)]

\* _run() goes on to its next execute_kw call
Issue(call, position, bound) ==
    /\ rpc_calls' = Append(rpc_calls, call)
    /\ tool_pc' = position
    /\ tool_locals' = bound
    /\ UNCHANGED tool_return

\* _run() returns
Return(text) ==
    /\ tool_return' = text
    /\ tool_pc' = "returned"
    /\ UNCHANGED <<rpc_calls, tool_locals>>

\* an exception leaves _run()
Propagate(e) ==
    /\ tool_return' = NoReturn
    /\ tool_pc' = "raised"
    /\ UNCHANGED <<rpc_calls, tool_locals>>

NoContact == [customer_name |-> Unbound, customer |-> Unbound, listing |-> Unbound]

\* a contact lookup begins: what the run before it found, if it was one too
RememberContact ==
    previous_contact' =
        IF /\ tool_locals.tool = "OdooCustomerInfoTool"
           /\ tool_pc = "returned"
           /\ Len(rpc_calls) = 2
        THEN [customer_name |-> tool_locals.customer_name,
              customer |-> tool_locals.customer,
              listing |-> rpc_outcomes[1][2]]
        ELSE NoContact

CustomerNames ==
    {"Marina", "marina peeters", "brico nv", "Brico", "Bri%", "Marnia", "Nobody", ""}

\* _run(customer_name) up to the search of res.partner
CustomerInfoRun ==
    /\ tool_pc \in Resting
    /\ rpc_outcomes' = <<>>
    /\ RememberContact
    /\ \E customer_name \in CustomerNames :
        /\ tool_locals' = [tool |-> "OdooCustomerInfoTool",
                           customer_name |-> customer_name, customer |-> Unbound]
        /\ rpc_calls' = <<Call("res.partner", "search_read",
                               Args(<<<<"name", "=ilike", customer_name>>>>, <<>>, <<>>),
                               Kwargs({"name", "email", "phone", "mobile", "street",
                                       "city", "country_id"}, 1, "", ""))>>
    /\ tool_pc' = "partner_data"
    /\ tool_return' = NoReturn
    /\ UNCHANGED <<store, updates, direct, startup, script, pc, typed, locals,
                   cost_monitor, kickoffs, events>>

\* the result when both reads succeeded
CustomerInformation(customer, order_data) ==
    Text("Customer Information:",
         [name |-> customer.name, email |-> customer.email, phone |-> customer.phone,
          mobile |-> customer.mobile, street |-> customer.street, city |-> customer.city,
          country |-> IF customer.country_id # <<>> THEN customer.country_id[2] ELSE "",
          orders |-> IF order_data # <<>>
                     THEN Text("Recent Orders ({len(order_data)}):",
                               [i \in 1..Len(order_data) |->
                                   [name |-> order_data[i].name,
                                    date |-> order_data[i].date_order.day,
                                    state |-> order_data[i].state,
                                    amount_total |-> order_data[i].amount_total]])
                     ELSE Text("No recent orders found.", <<>>)])

\* the result of the inner except clause
CustomerWithoutOrders(customer, order_error) ==
    Text("Customer: {name}\nEmail: {email}\nPhone: {phone}\nNote: Could not retrieve order history due to: {order_error}",
         [name |-> customer.name, email |-> customer.email, phone |-> customer.phone,
          order_error |-> order_error])

NoCustomerFound_lowered(customer_name) ==
    Text("No customer found matching '{customer_name}'. Please check the spelling or try a different name.",
         [customer_name |-> lower(customer_name)])

NoCustomerFound(customer_name) ==
    Text("No customer found matching '{customer_name}'. Please check the spelling or try a different name.",
         [customer_name |-> customer_name])

ErrorSearchingCustomer(e) == Text("Error searching for customer: {e}", [e |-> e])

\* the search of res.partner ends: the outer except clause, the else branch,
\* or customer = partner_data[0] and the search of sale.order
PartnerDataArrives_unguarded ==
    /\ tool_pc = "partner_data"
    /\ \E outcome \in Outcomes(Pending) :
        LET answer == execute_kw(store, Pending, outcome)
            partner_data == answer.value
        IN /\ store' = answer.store
           /\ rpc_outcomes' = Append(rpc_outcomes, outcome)
           /\ IF answer.raised
              THEN Propagate(answer.e)
              ELSE IF partner_data = <<>>
              THEN Return(NoCustomerFound(tool_locals.customer_name))
              ELSE Issue(Call("sale.order", "search_read",
                              Args(<<<<"partner_id", "=", partner_data[1].id>>>>, <<>>, <<>>),
                              Kwargs({"name", "date_order", "state", "amount_total"},
                                     5, "date_order desc", "")),
                         "order_data",
                         [tool_locals EXCEPT !.customer = partner_data[1]])
    /\ UNCHANGED <<updates, previous_contact, direct, startup, script, pc, typed, locals,
                   cost_monitor, kickoffs, events>>

\* the search of res.partner ends
PartnerDataArrives_cached ==
    /\ tool_pc = "partner_data"
    /\ \E outcome \in Outcomes(Pending) :
        LET answer == execute_kw(store, Pending, outcome)
            partner_data == answer.value
        IN /\ store' = answer.store
           /\ rpc_outcomes' = Append(rpc_outcomes, outcome)
           /\ IF answer.raised
              THEN Return(ErrorSearchingCustomer(answer.e))
              ELSE IF partner_data = <<>>
              THEN Return(NoCustomerFound(tool_locals.customer_name))
              ELSE LET customer == IF previous_contact = NoContact
                                   THEN partner_data[1]
                                   ELSE previous_contact.customer
                   IN Issue(Call("sale.order", "search_read",
                                 Args(<<<<"partner_id", "=", customer.id>>>>, <<>>, <<>>),
                                 Kwargs({"name", "date_order", "state", "amount_total"},
                                        5, "date_order desc", "")),
                            "order_data",
                            [tool_locals EXCEPT !.customer = customer])
    /\ UNCHANGED <<updates, previous_contact, direct, startup, script, pc, typed, locals,
                   cost_monitor, kickoffs, events>>

PartnerDataArrives ==
    /\ tool_pc = "partner_data"
    /\ \E outcome \in Outcomes(Pending) :
        LET answer == execute_kw(store, Pending, outcome)
            partner_data == answer.value
        IN /\ store' = answer.store
           /\ rpc_outcomes' = Append(rpc_outcomes, outcome)
           /\ IF answer.raised
              THEN Return(ErrorSearchingCustomer(answer.e))
              ELSE IF partner_data = <<>>
              THEN Return(NoCustomerFound(tool_locals.customer_name))
              ELSE Issue(Call("sale.order", "search_read",
                              Args(<<<<"partner_id", "=", partner_data[1].id>>>>, <<>>, <<>>),
                              Kwargs({"name", "date_order", "state", "amount_total"},
                                     5, "date_order desc", "")),
                         "order_data",
                         [tool_locals EXCEPT !.customer = partner_data[1]])
    /\ UNCHANGED <<updates, previous_contact, direct, startup, script, pc, typed, locals,
                   cost_monitor, kickoffs, events>>

\* the search of sale.order ends: the inner except clause, or the full result
OrderDataArrives_outer_except ==
    /\ tool_pc = "order_data"
    /\ \E outcome \in Outcomes(Pending) :
        LET answer == execute_kw(store, Pending, outcome)
        IN /\ store' = answer.store
           /\ rpc_outcomes' = Append(rpc_outcomes, outcome)
           /\ IF answer.raised
              THEN Return(ErrorSearchingCustomer(answer.e))
              ELSE Return(CustomerInformation(tool_locals.customer, answer.value))
    /\ UNCHANGED <<updates, previous_contact, direct, startup, script, pc, typed, locals,
                   cost_monitor, kickoffs, events>>

OrderDataArrives ==
    /\ tool_pc = "order_data"
    /\ \E outcome \in Outcomes(Pending) :
        LET answer == execute_kw(store, Pending, outcome)
        IN /\ store' = answer.store
           /\ rpc_outcomes' = Append(rpc_outcomes, outcome)
           /\ IF answer.raised
              THEN Return(CustomerWithoutOrders(tool_locals.customer, answer.e))
              ELSE Return(CustomerInformation(tool_locals.customer, answer.value))
    /\ UNCHANGED <<updates, previous_contact, direct, startup, script, pc, typed, locals,
                   cost_monitor, kickoffs, events>>

(***************************************************************************)
(* tools/multilingual_product_tools.py: OdooMultilingualProductFinder      *)
(***************************************************************************)
ProductNames == {"Garden Chair", "garden%", "Garden", "Gardn Chair", ""}

\* _get_multilingual_descriptions: the languages it reads, in order
languages == <<<<"en_US", "English">>, <<"nl_NL", "Dutch">>>>

\* the read of description_sale under a language context
ReadDescription(product_id, lang_code) ==
    Call("product.product", "read", Args(<<>>, <<product_id>>, <<>>),
         Kwargs({"description_sale"}, 0, "", lang_code))

\* _run(product_name) up to the search of product.product
ProductFinderRun ==
    /\ tool_pc \in Resting
    /\ rpc_outcomes' = <<>>
    /\ previous_contact' = NoContact
    /\ \E product_name \in ProductNames :
        /\ tool_locals' = [tool |-> "OdooMultilingualProductFinder",
                           product_name |-> product_name, product_data |-> <<>>,
                           product |-> 0, lang |-> 0, descriptions |-> <<>>,
                           result |-> <<>>]
        /\ rpc_calls' = <<Call("product.product", "search_read",
                               Args(<<<<"name", "=ilike", product_name>>>>, <<>>, <<>>),
                               Kwargs({"name", "description_sale", "list_price",
                                       "categ_id"}, 5, "", ""))>>
    /\ tool_pc' = "product_data"
    /\ tool_return' = NoReturn
    /\ UNCHANGED <<store, updates, direct, startup, script, pc, typed, locals,
                   cost_monitor, kickoffs, events>>

NoProductsFound(product_name) ==
    Text("No products found matching '{product_name}'. Try a broader search term.",
         [product_name |-> product_name])

ErrorSearchingProduct(e) == Text("Error searching for product: {e}", [e |-> e])

\* the search of product.product ends: the except clause, the early return,
\* or the first product's first read
ProductDataArrives ==
    /\ tool_pc = "product_data"
    /\ \E outcome \in Outcomes(Pending) :
        LET answer == execute_kw(store, Pending, outcome)
            product_data == answer.value
        IN /\ store' = answer.store
           /\ rpc_outcomes' = Append(rpc_outcomes, outcome)
           /\ IF answer.raised
              THEN Return(ErrorSearchingProduct(answer.e))
              ELSE IF product_data = <<>>
              THEN Return(NoProductsFound(tool_locals.product_name))
              ELSE Issue(ReadDescription(product_data[1].id, languages[1][1]),
                         "description",
                         [tool_locals EXCEPT !.product_data = product_data,
                                             !.product = 1, !.lang = 1])
    /\ UNCHANGED <<updates, previous_contact, direct, startup, script, pc, typed, locals,
                   cost_monitor, kickoffs, events>>

\* value or default
Or(value, default) == IF value \in {False, ""} THEN default ELSE value

\* desc[:100] and the dots that mark a cut
Shortened(desc) ==
    IF Len(desc) > 100 THEN SubSeq(desc, 1, 100) \o "..." ELSE desc

\* the lines of one product in the result
ProductBlock(product, descriptions) ==
    [product_id |-> product.id, name |-> product.name, price |-> product.list_price,
     category |-> IF product.categ_id # <<>> THEN product.categ_id[2] ELSE "N/A",
     descriptions |-> [i \in 1..Len(descriptions) |->
                          <<descriptions[i][1], Shortened(descriptions[i][2])>>]]

FoundProducts(product_data, blocks) ==
    Text("Found {len(product_data)} product(s) with multilingual data:",
         [count |-> Len(product_data), products |-> blocks])

\* a read of _get_multilingual_descriptions ends: the description, 'No
\* description' or the error is kept under the language's name, and _run goes
\* on to the next language, the next product, or its return
DescriptionArrives ==
    /\ tool_pc = "description"
    /\ \E outcome \in Outcomes(Pending) :
        LET answer == execute_kw(store, Pending, outcome)
            l == tool_locals
            desc == IF answer.raised THEN "Error: " \o answer.e
                    ELSE IF answer.value = <<>> THEN "No description"
                    ELSE Or(answer.value[1].description_sale, "")
            descriptions == Append(l.descriptions, <<languages[l.lang][2], desc>>)
            result == Append(l.result, ProductBlock(l.product_data[l.product], descriptions))
        IN /\ store' = answer.store
           /\ rpc_outcomes' = Append(rpc_outcomes, outcome)
           /\ IF l.lang < Len(languages)
              THEN Issue(ReadDescription(l.product_data[l.product].id,
                                         languages[l.lang + 1][1]),
                         "description",
                         [l EXCEPT !.lang = l.lang + 1, !.descriptions = descriptions])
              ELSE IF l.product < Len(l.product_data)
              THEN Issue(ReadDescription(l.product_data[l.product + 1].id, languages[1][1]),
                         "description",
                         [l EXCEPT !.product = l.product + 1, !.lang = 1,
                                   !.descriptions = <<>>, !.result = result])
              ELSE /\ tool_return' = FoundProducts(l.product_data, result)
                   /\ tool_pc' = "returned"
                   /\ tool_locals' = [l EXCEPT !.descriptions = descriptions,
                                               !.result = result]
                   /\ UNCHANGED rpc_calls
    /\ UNCHANGED <<updates, previous_contact, direct, startup, script, pc, typed, locals,
                   cost_monitor, kickoffs, events>>

(***************************************************************************)
(* tools/multilingual_product_tools.py: OdooMultilingualProductUpdater     *)
(***************************************************************************)
language_mapping == [English |-> "en_US", Dutch |-> "nl_NL"]

ProductIds == {41, 99}
DescriptionItems ==
    <<<<"English", "A garden chair">>, <<"French", "Une chaise">>,
      <<"Dutch", "Een tuinstoel ">>>>

Reversed(items) == [n \in 1..Len(items) |-> items[Len(items) + 1 - n]]

\* every way of leaving items out of a list
RECURSIVE Selections(_)
Selections(items) ==
    IF items = <<>> THEN {<<>>}
    ELSE LET rest == Selections(Tail(items))
         IN rest \cup {<<Head(items)>> \o r : r \in rest}

\* a descriptions dict: its items in insertion order, the keys distinct; the
\* languages come in one order or in the opposite one
DescriptionDicts ==
    Selections(DescriptionItems) \cup Selections(Reversed(DescriptionItems))

\* the loop of _run over descriptions.items() from item i, up to the first
\* language of the mapping: every other language is reported and skipped
RECURSIVE SkipUnknown(_, _, _)
SkipUnknown(items, i, results) ==
    IF i <= Len(items) /\ items[i][1] \notin DOMAIN language_mapping
    THEN SkipUnknown(items, i + 1,
                     Append(results, Text("(x) Unknown language: {lang_name}", items[i][1])))
    ELSE [i |-> i, results |-> results]

\* the loop of _verify_updates from item j, up to the first language of the mapping
RECURSIVE SkipUnverified(_, _)
SkipUnverified(items, j) ==
    IF j <= Len(items) /\ items[j][1] \notin DOMAIN language_mapping
    THEN SkipUnverified(items, j + 1)
    ELSE j

\* _update_with_context: the write under a language context
ContextWrite(product_id, description, lang_code) ==
    Call("product.product", "write",
         Args(<<>>, <<product_id>>, [description_sale |-> description]),
         Kwargs({}, 0, "", lang_code))

\* "\n".join(results) with the verification block at its end
UpdateReport(results, verification) ==
    Text("\n.join(results)",
         Append(results, Text("\nVerification Results:\n{verification}", verification)))

\* _verify_updates goes on from item j: the next read, or _run returns
VerifyGoesOn(l, log, from, verification) ==
    LET j == SkipUnverified(l.descriptions, from)
        bound == [l EXCEPT !.j = j, !.verification = verification]
    IN IF j <= Len(l.descriptions)
       THEN /\ rpc_calls' = Append(log, ReadDescription(l.product_id,
                                        language_mapping[l.descriptions[j][1]]))
            /\ tool_pc' = "verification"
            /\ tool_locals' = bound
            /\ tool_return' = NoReturn
       ELSE /\ rpc_calls' = log
            /\ tool_pc' = "returned"
            /\ tool_locals' = bound
            /\ tool_return' = UpdateReport(l.results, verification)

\* the loop of _run goes on from item i
UpdateGoesOn_eager(l, log, from, results) ==
    LET next == SkipUnknown(l.descriptions, from, results)
        bound == [l EXCEPT !.i = next.i, !.results = next.results]
    IN IF next.i <= Len(l.descriptions) /\ from = 1
       THEN /\ rpc_calls' = Append(log, ContextWrite(l.product_id,
                                        l.descriptions[next.i][2],
                                        language_mapping[l.descriptions[next.i][1]]))
            /\ tool_pc' = "context_update"
            /\ tool_locals' = bound
            /\ tool_return' = NoReturn
       ELSE VerifyGoesOn(bound, log, 1, <<>>)

\* the loop of _run goes on from item i: the next write, or the verification
UpdateGoesOn(l, log, from, results) ==
    LET next == SkipUnknown(l.descriptions, from, results)
        bound == [l EXCEPT !.i = next.i, !.results = next.results]
    IN IF next.i <= Len(l.descriptions)
       THEN /\ rpc_calls' = Append(log, ContextWrite(l.product_id,
                                        l.descriptions[next.i][2],
                                        language_mapping[l.descriptions[next.i][1]]))
            /\ tool_pc' = "context_update"
            /\ tool_locals' = bound
            /\ tool_return' = NoReturn
       ELSE VerifyGoesOn(bound, log, 1, <<>>)

Updated(lang_name) == Text("(v) Successfully updated {lang_name} description", lang_name)
NotUpdated(lang_name) == Text("(x) Failed to update {lang_name} description", lang_name)

\* _run(product_id, descriptions) up to its first execute_kw call
ProductUpdaterRun ==
    /\ tool_pc \in Resting
    /\ rpc_outcomes' = <<>>
    /\ previous_contact' = NoContact
    /\ updates < MaxUpdates
    /\ \E product_id \in ProductIds, descriptions \in DescriptionDicts :
        UpdateGoesOn([tool |-> "OdooMultilingualProductUpdater",
                      product_id |-> product_id, descriptions |-> descriptions,
                      i |-> 0, results |-> <<>>, j |-> 0, verification |-> <<>>],
                     <<>>, 1, <<>>)
    /\ updates' = updates + 1
    /\ UNCHANGED <<store, direct, startup, script, pc, typed, locals,
                   cost_monitor, kickoffs, events>>

\* the item of descriptions that the loop of _run is at
lang_name == tool_locals.descriptions[tool_locals.i][1]
description == tool_locals.descriptions[tool_locals.i][2]

\* _update_with_context ends
ContextUpdateAnswers_both ==
    /\ tool_pc = "context_update"
    /\ \E outcome \in Outcomes(Pending) :
        LET answer == execute_kw(store, Pending, outcome)
            l == tool_locals
        IN /\ store' = answer.store
           /\ rpc_outcomes' = Append(rpc_outcomes, outcome)
           /\ IF ~answer.raised /\ answer.value = TRUE /\ answer.raised
              THEN UpdateGoesOn(l, rpc_calls, l.i + 1, Append(l.results, Updated(lang_name)))
              ELSE /\ rpc_calls' = Append(rpc_calls,
                        Call("ir.translation", "search_read",
                             Args(<<<<"name", "=", "product.product,description_sale">>,
                                    <<"res_id", "=", l.product_id>>,
                                    <<"lang", "=", language_mapping[lang_name]>>>>,
                                  <<>>, <<>>),
                             Kwargs({"value"}, 0, "", "")))
                   /\ tool_pc' = "existing_translations"
                   /\ UNCHANGED <<tool_locals, tool_return>>
    /\ UNCHANGED <<updates, previous_contact, direct, startup, script, pc, typed, locals,
                   cost_monitor, kickoffs, events>>

\* _update_with_context ends: success, or on to _update_translation_record
ContextUpdateAnswers ==
    /\ tool_pc = "context_update"
    /\ \E outcome \in Outcomes(Pending) :
        LET answer == execute_kw(store, Pending, outcome)
            l == tool_locals
        IN /\ store' = answer.store
           /\ rpc_outcomes' = Append(rpc_outcomes, outcome)
           /\ IF ~answer.raised /\ answer.value = TRUE
              THEN UpdateGoesOn(l, rpc_calls, l.i + 1, Append(l.results, Updated(lang_name)))
              ELSE /\ rpc_calls' = Append(rpc_calls,
                        Call("ir.translation", "search_read",
                             Args(<<<<"name", "=", "product.product,description_sale">>,
                                    <<"res_id", "=", l.product_id>>,
                                    <<"lang", "=", language_mapping[lang_name]>>>>,
                                  <<>>, <<>>),
                             Kwargs({"value"}, 0, "", "")))
                   /\ tool_pc' = "existing_translations"
                   /\ UNCHANGED <<tool_locals, tool_return>>
    /\ UNCHANGED <<updates, previous_contact, direct, startup, script, pc, typed, locals,
                   cost_monitor, kickoffs, events>>

\* the search of ir.translation ends
ExistingTranslationsArrive_uncaught ==
    /\ tool_pc = "existing_translations"
    /\ \E outcome \in Outcomes(Pending) :
        LET answer == execute_kw(store, Pending, outcome)
            l == tool_locals
            existing_translations == answer.value
        IN /\ store' = answer.store
           /\ rpc_outcomes' = Append(rpc_outcomes, outcome)
           /\ IF answer.raised
              THEN Return(Text("(x) Critical error during multilingual update: {e}",
                               answer.e))
              ELSE IF existing_translations # <<>>
              THEN /\ rpc_calls' = Append(rpc_calls,
                        Call("ir.translation", "write",
                             Args(<<>>, <<existing_translations[1].id>>,
                                  [value |-> description]),
                             Kwargs({}, 0, "", "")))
                   /\ tool_pc' = "translation_write"
                   /\ UNCHANGED <<tool_locals, tool_return>>
              ELSE /\ rpc_calls' = Append(rpc_calls,
                        Call("ir.translation", "create",
                             Args(<<>>, <<>>,
                                  [name |-> "product.product,description_sale",
                                   res_id |-> l.product_id,
                                   lang |-> language_mapping[lang_name],
                                   value |-> description, type |-> "model"]),
                             Kwargs({}, 0, "", "")))
                   /\ tool_pc' = "translation_create"
                   /\ UNCHANGED <<tool_locals, tool_return>>
    /\ UNCHANGED <<updates, previous_contact, direct, startup, script, pc, typed, locals,
                   cost_monitor, kickoffs, events>>

\* the search of ir.translation ends
ExistingTranslationsArrive_creating ==
    /\ tool_pc = "existing_translations"
    /\ \E outcome \in Outcomes(Pending) :
        LET answer == execute_kw(store, Pending, outcome)
            l == tool_locals
            existing_translations == answer.value
        IN /\ store' = answer.store
           /\ rpc_outcomes' = Append(rpc_outcomes, outcome)
           /\ IF answer.raised
              THEN UpdateGoesOn(l, rpc_calls, l.i + 1,
                                Append(l.results, NotUpdated(lang_name)))
              ELSE IF existing_translations # existing_translations
              THEN /\ rpc_calls' = Append(rpc_calls,
                        Call("ir.translation", "write",
                             Args(<<>>, <<existing_translations[1].id>>,
                                  [value |-> description]),
                             Kwargs({}, 0, "", "")))
                   /\ tool_pc' = "translation_write"
                   /\ UNCHANGED <<tool_locals, tool_return>>
              ELSE /\ rpc_calls' = Append(rpc_calls,
                        Call("ir.translation", "create",
                             Args(<<>>, <<>>,
                                  [name |-> "product.product,description_sale",
                                   res_id |-> l.product_id,
                                   lang |-> language_mapping[lang_name],
                                   value |-> description, type |-> "model"]),
                             Kwargs({}, 0, "", "")))
                   /\ tool_pc' = "translation_create"
                   /\ UNCHANGED <<tool_locals, tool_return>>
    /\ UNCHANGED <<updates, previous_contact, direct, startup, script, pc, typed, locals,
                   cost_monitor, kickoffs, events>>

\* the search of ir.translation ends: failure, or the write of the record
\* found, or the creation of a record
ExistingTranslationsArrive ==
    /\ tool_pc = "existing_translations"
    /\ \E outcome \in Outcomes(Pending) :
        LET answer == execute_kw(store, Pending, outcome)
            l == tool_locals
            existing_translations == answer.value
        IN /\ store' = answer.store
           /\ rpc_outcomes' = Append(rpc_outcomes, outcome)
           /\ IF answer.raised
              THEN UpdateGoesOn(l, rpc_calls, l.i + 1,
                                Append(l.results, NotUpdated(lang_name)))
              ELSE IF existing_translations # <<>>
              THEN /\ rpc_calls' = Append(rpc_calls,
                        Call("ir.translation", "write",
                             Args(<<>>, <<existing_translations[1].id>>,
                                  [value |-> description]),
                             Kwargs({}, 0, "", "")))
                   /\ tool_pc' = "translation_write"
                   /\ UNCHANGED <<tool_locals, tool_return>>
              ELSE /\ rpc_calls' = Append(rpc_calls,
                        Call("ir.translation", "create",
                             Args(<<>>, <<>>,
                                  [name |-> "product.product,description_sale",
                                   res_id |-> l.product_id,
                                   lang |-> language_mapping[lang_name],
                                   value |-> description, type |-> "model"]),
                             Kwargs({}, 0, "", "")))
                   /\ tool_pc' = "translation_create"
                   /\ UNCHANGED <<tool_locals, tool_return>>
    /\ UNCHANGED <<updates, previous_contact, direct, startup, script, pc, typed, locals,
                   cost_monitor, kickoffs, events>>

\* the write of the translation record ends
TranslationWriteAnswers_unchecked ==
    /\ tool_pc = "translation_write"
    /\ \E outcome \in Outcomes(Pending) :
        LET answer == execute_kw(store, Pending, outcome)
            l == tool_locals
            success == TRUE
        IN /\ store' = answer.store
           /\ rpc_outcomes' = Append(rpc_outcomes, outcome)
           /\ UpdateGoesOn(l, rpc_calls, l.i + 1,
                           Append(l.results, IF success THEN Updated(lang_name)
                                             ELSE NotUpdated(lang_name)))
    /\ UNCHANGED <<updates, previous_contact, direct, startup, script, pc, typed, locals,
                   cost_monitor, kickoffs, events>>

\* the write of the translation record ends
TranslationWriteAnswers ==
    /\ tool_pc = "translation_write"
    /\ \E outcome \in Outcomes(Pending) :
        LET answer == execute_kw(store, Pending, outcome)
            l == tool_locals
            success == ~answer.raised /\ answer.value = TRUE
        IN /\ store' = answer.store
           /\ rpc_outcomes' = Append(rpc_outcomes, outcome)
           /\ UpdateGoesOn(l, rpc_calls, l.i + 1,
                           Append(l.results, IF success THEN Updated(lang_name)
                                             ELSE NotUpdated(lang_name)))
    /\ UNCHANGED <<updates, previous_contact, direct, startup, script, pc, typed, locals,
                   cost_monitor, kickoffs, events>>

\* the creation of the translation record ends
TranslationCreateAnswers ==
    /\ tool_pc = "translation_create"
    /\ \E outcome \in Outcomes(Pending) :
        LET answer == execute_kw(store, Pending, outcome)
            l == tool_locals
            success == ~answer.raised /\ answer.value # 0
        IN /\ store' = answer.store
           /\ rpc_outcomes' = Append(rpc_outcomes, outcome)
           /\ UpdateGoesOn(l, rpc_calls, l.i + 1,
                           Append(l.results, IF success THEN Updated(lang_name)
                                             ELSE NotUpdated(lang_name)))
    /\ UNCHANGED <<updates, previous_contact, direct, startup, script, pc, typed, locals,
                   cost_monitor, kickoffs, events>>

\* a read of _verify_updates ends
VerificationArrives_uncompared ==
    /\ tool_pc = "verification"
    /\ \E outcome \in Outcomes(Pending) :
        LET answer == execute_kw(store, Pending, outcome)
            l == tool_locals
            name == l.descriptions[l.j][1]
            expected_desc == l.descriptions[l.j][2]
            actual_desc == Or(answer.value[1].description_sale, "")
            line == IF answer.raised
                    THEN Text("(x) {lang_name}: Verification error - {e}",
                              <<name, answer.e>>)
                    ELSE IF answer.value = <<>>
                    THEN Text("(x) {lang_name}: Could not read back data", <<name>>)
                    ELSE IF actual_desc = actual_desc
                    THEN Text("(v) {lang_name}: Update verified", <<name>>)
                    ELSE Text("(x) {lang_name}: Update failed - Expected length {len(expected_desc)}, got length {len(actual_desc)}",
                              <<name, Len(expected_desc), Len(actual_desc)>>)
        IN /\ store' = answer.store
           /\ rpc_outcomes' = Append(rpc_outcomes, outcome)
           /\ VerifyGoesOn(l, rpc_calls, l.j + 1, Append(l.verification, line))
    /\ UNCHANGED <<updates, previous_contact, direct, startup, script, pc, typed, locals,
                   cost_monitor, kickoffs, events>>

\* a read of _verify_updates ends: its line of the verification block
VerificationArrives ==
    /\ tool_pc = "verification"
    /\ \E outcome \in Outcomes(Pending) :
        LET answer == execute_kw(store, Pending, outcome)
            l == tool_locals
            name == l.descriptions[l.j][1]
            expected_desc == l.descriptions[l.j][2]
            actual_desc == Or(answer.value[1].description_sale, "")
            line == IF answer.raised
                    THEN Text("(x) {lang_name}: Verification error - {e}",
                              <<name, answer.e>>)
                    ELSE IF answer.value = <<>>
                    THEN Text("(x) {lang_name}: Could not read back data", <<name>>)
                    ELSE IF strip(actual_desc) = strip(expected_desc)
                    THEN Text("(v) {lang_name}: Update verified", <<name>>)
                    ELSE Text("(x) {lang_name}: Update failed - Expected length {len(expected_desc)}, got length {len(actual_desc)}",
                              <<name, Len(expected_desc), Len(actual_desc)>>)
        IN /\ store' = answer.store
           /\ rpc_outcomes' = Append(rpc_outcomes, outcome)
           /\ VerifyGoesOn(l, rpc_calls, l.j + 1, Append(l.verification, line))
    /\ UNCHANGED <<updates, previous_contact, direct, startup, script, pc, typed, locals,
                   cost_monitor, kickoffs, events>>

(***************************************************************************)
(* The tools as smart_assistant.py constructs them, and their use          *)
(***************************************************************************)
ToolsConstructed ==
    /\ store = Database
    /\ tool_pc = "idle"
    /\ tool_locals = [tool |-> Unbound]
    /\ rpc_calls = <<>>
    /\ rpc_outcomes = <<>>
    /\ tool_return = NoReturn
    /\ updates = 0
    /\ previous_contact = NoContact

\* no direct-tool assistant runs
NoDirect ==
    /\ project_id = ""
    /\ search_term = Unbound

InitTools ==
    /\ script = "smart_assistant"
    /\ pc = "kickoff"
    /\ typed = "customer"
    /\ user_request = "customer"
    /\ complexity = Unbound
    /\ request_type = "customer_service"
    /\ main_task = CustomerServiceRoute("customer").main_task
    /\ agents_list = CustomerServiceRoute("customer").agents_list
    /\ tasks_list = CustomerServiceRoute("customer").tasks_list
    /\ max_rpm = 0
    /\ cost_monitor = [flash_calls |-> 0, pro_calls |-> 0, total_estimated_cost |-> 0]
    /\ kickoffs = 1
    /\ events = <<>>
    /\ ToolsConstructed
    /\ NoDirect
    /\ Started

NextTools ==
    \/ CustomerInfoRun
    \/ PartnerDataArrives
    \/ OrderDataArrives
    \/ ProductFinderRun
    \/ ProductDataArrives
    \/ DescriptionArrives
    \/ ProductUpdaterRun
    \/ ContextUpdateAnswers
    \/ ExistingTranslationsArrive
    \/ TranslationWriteAnswers
    \/ TranslationCreateAnswers
    \/ VerificationArrives

SpecTools == InitTools /\ [][NextTools]_vars

(***************************************************************************)
(* The two lookups against a database with many matches                    *)
(***************************************************************************)
\* six products named Garden ..., six orders of one contact, two contacts
\* of one name
CrowdedDatabase ==
    [Database EXCEPT !.product_product = @ \cup
        {[id |-> 44, name |-> "Garden Table", list_price |-> 120,
          categ_id |-> <<3, "Furniture">>, description_sale |-> "A table"],
         [id |-> 45, name |-> "Garden Bench", list_price |-> 90,
          categ_id |-> <<3, "Furniture">>, description_sale |-> False],
         [id |-> 46, name |-> "Garden Hose", list_price |-> 25,
          categ_id |-> <<>>, description_sale |-> "A hose"],
         [id |-> 47, name |-> "Garden Light", list_price |-> 15,
          categ_id |-> <<>>, description_sale |-> False]}]

InitLookups ==
    /\ script = "smart_assistant"
    /\ pc = "kickoff"
    /\ typed = "customer"
    /\ user_request = "customer"
    /\ complexity = Unbound
    /\ request_type = "customer_service"
    /\ main_task = CustomerServiceRoute("customer").main_task
    /\ agents_list = CustomerServiceRoute("customer").agents_list
    /\ tasks_list = CustomerServiceRoute("customer").tasks_list
    /\ max_rpm = 0
    /\ cost_monitor = [flash_calls |-> 0, pro_calls |-> 0, total_estimated_cost |-> 0]
    /\ kickoffs = 1
    /\ events = <<>>
    /\ store = CrowdedDatabase
    /\ tool_pc = "idle"
    /\ tool_locals = [tool |-> Unbound]
    /\ rpc_calls = <<>>
    /\ rpc_outcomes = <<>>
    /\ tool_return = NoReturn
    /\ updates = 0
    /\ previous_contact = NoContact
    /\ NoDirect
    /\ Started

NextLookups ==
    \/ CustomerInfoRun
    \/ PartnerDataArrives
    \/ OrderDataArrives
    \/ ProductFinderRun
    \/ ProductDataArrives
    \/ DescriptionArrives

SpecLookups == InitLookups /\ [][NextLookups]_vars

(***************************************************************************)
(* smart_assistant_vertex_ai_fixed.py: request analysis                    *)
(***************************************************************************)
fixed_customer_keywords ==
    {"customer", "who is", "find customer", "contact", "email address", "phone",
     "mobile", "email of", "contact for", "address of", "phone of", "mobile of",
     "information about", "details of", "find", "search for", "look up", "brico",
     "company", "client", "partner", "supplier", "vendor", "contact details",
     "customer info"}

fixed_product_keywords ==
    {"product", "item", "inventory", "stock", "catalog", "price", "description",
     "update product", "modify product", "product info", "product details"}

fixed_email_keywords ==
    {"draft email", "write email", "send email", "compose", "letter", "message"}

fixed_complex_keywords == {"create", "generate", "analyze", "polish", "improve", "enhance"}

\* analyze_request_complexity of the fixed Vertex assistant
fixed_analyze_request_complexity(request) ==
    LET request_lower == lower(request)
    IN  IF AnyKeyword(fixed_customer_keywords, request_lower)
        THEN <<"simple", "customer_service">>
        ELSE IF AnyKeyword(fixed_product_keywords, request_lower)
        THEN <<"complex", "product_management">>
        ELSE IF AnyKeyword(fixed_email_keywords, request_lower)
        THEN <<"complex", "email_communication">>
        ELSE IF AnyKeyword(fixed_complex_keywords, request_lower)
        THEN <<"complex", "content_generation">>
        ELSE <<"simple", "customer_service">>

patterns_to_remove ==
    <<"give me information about the customer ", "give me information about customer ",
      "give me information about the ", "give me information about ",
      "find customer ", "search for customer ", "search for ", "look up customer ",
      "look up ", "email of the ", "email of ", "contact for the ", "contact for ",
      "phone of the ", "phone of ", "address of the ", "address of ",
      "details of the ", "details of ", "information about the ",
      "information about ", "who is the ", "who is ", "what is the email of the ",
      "what is the email of ", "what is the phone of the ", "what is the phone of ",
      "customer ", "the ">>

\* str.find: the index, from 0, of the first occurrence of k in s, or -1
find(s, k) ==
    LET found == {i \in 0..(Len(s) - Len(k)) : SubSeq(s, i + 1, i + Len(k)) = k}
    IN IF found = {} THEN 0 - 1
       ELSE CHOOSE i \in found : \A j \in found : i <= j

\* search_term[:start_pos] + search_term[start_pos + len(pattern):]
Cut(s, start_pos, length) ==
    SubSeq(s, 1, start_pos) \o SubSeq(s, start_pos + length + 1, Len(s))

\* the loop of extract_search_term from pattern i: the first pattern that
\* occurs is cut out once, and the loop breaks
RECURSIVE RemoveFirstPattern(_, _)
RemoveFirstPattern(term, i) ==
    IF i > Len(patterns_to_remove) THEN term
    ELSE LET pattern == patterns_to_remove[i]
             start_pos == find(lower(term), lower(pattern))
         IN IF start_pos # 0 - 1
            THEN Cut(term, start_pos, Len(pattern))
            ELSE RemoveFirstPattern(term, i + 1)

extract_search_term(request) == strip(RemoveFirstPattern(request, 1))

(***************************************************************************)
(* smart_assistant_vertex_ai_fixed.py: main()                              *)
(***************************************************************************)
DirectLines ==
    {" ", "exit", "Who is customer Marina?", "who is Marina Peeters",
     "find customer brico nv", "Marina Peeters", "the garden chair price",
     "price tag", "draft email to Marina", "polish this text"}

\* input().strip(), the two guards, analyze_request_complexity and
\* extract_search_term on every line that can be typed, evaluated once
DirectAccepted ==
    [line \in DirectLines |->
        [accept |-> Accept(line),
         analysis |-> fixed_analyze_request_complexity(strip(line)),
         search_term |-> extract_search_term(strip(line))]]

\* use_customer_tool_directly: customer_info_tool._run(search_term), up to
\* its search of res.partner
use_customer_tool_directly(term) ==
    /\ tool_locals' = [tool |-> "OdooCustomerInfoTool",
                       customer_name |-> term, customer |-> Unbound]
    /\ rpc_calls' = <<Call("res.partner", "search_read",
                           Args(<<<<"name", "=ilike", term>>>>, <<>>, <<>>),
                           Kwargs({"name", "email", "phone", "mobile", "street",
                                   "city", "country_id"}, 1, "", ""))>>
    /\ rpc_outcomes' = <<>>
    /\ RememberContact
    /\ tool_pc' = "partner_data"
    /\ tool_return' = NoReturn

\* use_product_tool_directly: product_finder_tool._run(search_term), up to
\* its search of product.product
use_product_tool_directly(term) ==
    /\ tool_locals' = [tool |-> "OdooMultilingualProductFinder",
                       product_name |-> term, product_data |-> <<>>,
                       product |-> 0, lang |-> 0, descriptions |-> <<>>,
                       result |-> <<>>]
    /\ rpc_calls' = <<Call("product.product", "search_read",
                           Args(<<<<"name", "=ilike", term>>>>, <<>>, <<>>),
                           Kwargs({"name", "description_sale", "list_price",
                                   "categ_id"}, 5, "", ""))>>
    /\ rpc_outcomes' = <<>>
    /\ previous_contact' = NoContact
    /\ tool_pc' = "product_data"
    /\ tool_return' = NoReturn

EmailNeedsAI ==
    Text("Email generation requires AI capabilities. Please use a more specific request for customer or product information.",
         <<>>)

\* input() returns a line: the guards, the analysis, the extraction, and the
\* branch of the request type up to its tool call or its LLM call
DirectReadInput ==
    /\ script = "smart_assistant_vertex_ai_fixed"
    /\ pc = "input"
    /\ \E line \in DirectLines :
        LET a == DirectAccepted[line]
            analysed == <<Event("Processing your request: '{user_request}'",
                                a.accept.user_request),
                          Event("   Complexity: {complexity}", a.analysis[1]),
                          Event("   Type: {request_type}", a.analysis[2]),
                          Event("   Search term: '{search_term}'", a.search_term)>>
        IN
        /\ typed' = line
        /\ user_request' = a.accept.user_request
        /\ IF a.accept.verdict = "break"
           THEN /\ events' = <<Event("Goodbye!", "")>>
                /\ pc' = "done"
                /\ UNCHANGED <<complexity, request_type, search_term, tool_locals,
                               rpc_calls, rpc_outcomes, tool_pc, tool_return,
                               previous_contact>>
           ELSE IF a.accept.verdict = "continue"
           THEN /\ events' = <<Event("Please enter your request.", "")>>
                /\ pc' = "input"
                /\ UNCHANGED <<complexity, request_type, search_term, tool_locals,
                               rpc_calls, rpc_outcomes, tool_pc, tool_return,
                               previous_contact>>
           ELSE /\ complexity' = a.analysis[1]
                /\ request_type' = a.analysis[2]
                /\ search_term' = a.search_term
                /\ IF a.analysis[2] = "customer_service"
                   THEN /\ events' = Append(analysed,
                                Event("Using customer service tools...", ""))
                        /\ use_customer_tool_directly(a.search_term)
                        /\ pc' = "tool"
                   ELSE IF a.analysis[2] = "product_management"
                   THEN /\ events' = Append(analysed,
                                Event("Using product management tools...", ""))
                        /\ use_product_tool_directly(a.search_term)
                        /\ pc' = "tool"
                   ELSE IF project_id # ""
                   THEN /\ events' = Append(analysed,
                                IF a.analysis[2] = "email_communication"
                                THEN Event("Generating email with AI...", "")
                                ELSE Event("Generating content with AI...", ""))
                        /\ pc' = "generate"
                        /\ UNCHANGED <<tool_locals, rpc_calls, rpc_outcomes, tool_pc,
                                       tool_return, previous_contact>>
                   ELSE IF a.analysis[2] = "email_communication"
                   THEN /\ events' = Append(analysed,
                                Event("print(final_result)", EmailNeedsAI))
                        /\ pc' = "input"
                        /\ UNCHANGED <<tool_locals, rpc_calls, rpc_outcomes, tool_pc,
                                       tool_return, previous_contact>>
                   ELSE /\ events' = analysed
                        /\ use_customer_tool_directly(a.search_term)
                        /\ pc' = "tool"
    /\ UNCHANGED <<startup, script, main_task, agents_list, tasks_list, max_rpm, cost_monitor,
                   kickoffs, store, updates, project_id>>

\* the tool has returned: the result is shown, or handed to the LLM first
DirectToolReturns ==
    /\ script = "smart_assistant_vertex_ai_fixed"
    /\ pc = "tool"
    /\ tool_pc = "returned"
    /\ IF project_id # "" /\ request_type \in {"customer_service", "product_management"}
       THEN /\ events' = Append(events, Event("Enhancing response with AI...", ""))
            /\ pc' = "enhance"
       ELSE /\ events' = Append(events, Event("print(final_result)", tool_return))
            /\ pc' = "input"
    /\ UNCHANGED <<startup, script, typed, locals, cost_monitor, kickoffs, tools, direct>>

\* what model.generate_content can raise
LlmErrors == {"429 Resource exhausted", "503 Service unavailable"}

\* VertexAILLM.generate: response.text, or the text of its except clause
GenerateOutcomes(llm, request) ==
    {Text("response.text", <<llm, request>>)}
        \cup {Text("Error generating response: {e}", <<e>>) : e \in LlmErrors}

\* generate_ai_response: llm.generate(prompt) ends and its value is shown
EnhanceAnswers ==
    /\ script = "smart_assistant_vertex_ai_fixed"
    /\ pc = "enhance"
    /\ \E ai_response \in GenerateOutcomes(IF complexity = "simple" THEN "flash_llm"
                                           ELSE "pro_llm", user_request) :
        events' = Append(events, Event("print(final_result)", ai_response))
    /\ pc' = "input"
    /\ UNCHANGED <<startup, script, typed, locals, cost_monitor, kickoffs, tools, direct>>

\* pro_llm.generate(prompt) of the email and content branches ends
GenerateAnswers ==
    /\ script = "smart_assistant_vertex_ai_fixed"
    /\ pc = "generate"
    /\ \E final_result \in GenerateOutcomes("pro_llm", user_request) :
        events' = Append(events, Event("print(final_result)", final_result))
    /\ pc' = "input"
    /\ UNCHANGED <<startup, script, typed, locals, cost_monitor, kickoffs, tools, direct>>

\* input() raises: except Exception prints and continues
DirectInputRaises ==
    /\ script = "smart_assistant_vertex_ai_fixed"
    /\ pc = "input"
    /\ events' = <<Event("An error occurred: {e}", "EOF when reading a line"),
                   Event("Please try again with a different request.", "")>>
    /\ UNCHANGED <<startup, script, pc, typed, locals, cost_monitor, kickoffs, tools, direct>>

\* Ctrl-C at input() or in a blocking call: except KeyboardInterrupt breaks
DirectKeyboardInterrupt ==
    /\ script = "smart_assistant_vertex_ai_fixed"
    /\ pc \in {"input", "tool", "enhance", "generate"}
    /\ pc = "tool" => tool_pc \notin Resting
    /\ events' = Append(IF pc = "input" THEN <<>> ELSE events,
                        Event("Operation cancelled by user. Goodbye!", ""))
    /\ pc' = "done"
    /\ tool_pc' = IF pc = "tool" THEN "raised" ELSE tool_pc
    /\ UNCHANGED <<startup, script, typed, locals, cost_monitor, kickoffs, store, tool_locals,
                   rpc_calls, rpc_outcomes, tool_return, updates, previous_contact,
                   direct>>

ProjectIds == {"", "odoo-assistant"}

InitDirect ==
    /\ script = "smart_assistant_vertex_ai_fixed"
    /\ pc = "input"
    /\ typed = Unbound
    /\ user_request = Unbound
    /\ complexity = Unbound
    /\ request_type = Unbound
    /\ main_task = UnboundTask
    /\ agents_list = UnboundList
    /\ tasks_list = UnboundList
    /\ max_rpm = 0
    /\ cost_monitor = [flash_calls |-> 0, pro_calls |-> 0, total_estimated_cost |-> 0]
    /\ kickoffs = 0
    /\ events = <<>>
    /\ ToolsConstructed
    /\ project_id \in ProjectIds
    /\ search_term = Unbound
    /\ Started

\* the tool actions run only while main() waits for the tool
NextDirect ==
    \/ DirectReadInput
    \/ pc = "tool" /\ PartnerDataArrives
    \/ pc = "tool" /\ OrderDataArrives
    \/ pc = "tool" /\ ProductDataArrives
    \/ pc = "tool" /\ DescriptionArrives
    \/ DirectToolReturns
    \/ EnhanceAnswers
    \/ GenerateAnswers
    \/ DirectInputRaises
    \/ DirectKeyboardInterrupt

SpecDirect == InitDirect /\ [][NextDirect]_vars

(***************************************************************************)
(* The interactive loops                                                   *)
(***************************************************************************)
Scripts == {"smart_assistant", "smart_assistant_optimized"}

\* main() is entered: no local is bound, no call is counted
Init ==
    /\ script \in Scripts
    /\ pc = "input"
    /\ typed = Unbound
    /\ user_request = Unbound
    /\ complexity = Unbound
    /\ request_type = Unbound
    /\ main_task = UnboundTask
    /\ agents_list = UnboundList
    /\ tasks_list = UnboundList
    /\ max_rpm = 0
    /\ cost_monitor = [flash_calls |-> 0, pro_calls |-> 0, total_estimated_cost |-> 0]
    /\ kickoffs = 0
    /\ events = <<>>
    /\ ToolsConstructed
    /\ NoDirect
    /\ Started

Next ==
    \/ ReadInput
    \/ Route
    \/ KickoffReturns
    \/ KickoffRaises
    \/ CooldownEnds
    \/ CooldownInterrupted
    \/ InputRaises
    \/ KeyboardInterrupt
    \/ OptimizedReadInput
    \/ OptimizedSleep
    \/ OptimizedKickoffReturns
    \/ OptimizedKickoffRaises
    \/ OptimizedCooldownEnds
    \/ OptimizedCooldownInterrupted
    \/ OptimizedInputRaises
    \/ OptimizedKeyboardInterrupt

Spec == Init /\ [][Next]_vars

(***************************************************************************)
(* smart_assistant.py from its first line: the startup, then main()        *)
(***************************************************************************)
InitStartup ==
    /\ script = "smart_assistant"
    /\ pc = "input"
    /\ typed = Unbound
    /\ user_request = Unbound
    /\ complexity = Unbound
    /\ request_type = Unbound
    /\ main_task = UnboundTask
    /\ agents_list = UnboundList
    /\ tasks_list = UnboundList
    /\ max_rpm = 0
    /\ cost_monitor = [flash_calls |-> 0, pro_calls |-> 0, total_estimated_cost |-> 0]
    /\ kickoffs = 0
    /\ events = <<>>
    /\ ToolsConstructed
    /\ NoDirect
    /\ Booting

\* main() is called on the last line of the script
NextStartup ==
    \/ Connect
    \/ VersionAnswers
    \/ AuthenticateAnswers
    \/ TestConnectionAnswers
    \/ boot.pc = "main" /\ ReadInput
    \/ boot.pc = "main" /\ Route
    \/ boot.pc = "main" /\ KickoffReturns
    \/ boot.pc = "main" /\ KickoffRaises
    \/ boot.pc = "main" /\ CooldownEnds
    \/ boot.pc = "main" /\ CooldownInterrupted
    \/ boot.pc = "main" /\ InputRaises
    \/ boot.pc = "main" /\ KeyboardInterrupt

SpecStartup == InitStartup /\ [][NextStartup]_vars

(***************************************************************************)
(* tools/odoo_connection.py: one OdooConnection whose methods a caller     *)
(* calls in any order, connect() any number of times                       *)
(***************************************************************************)
NotConnected == "Not connected to Odoo. Call connect() first."

\* connect(): the fields it assigns and what it returns, given how
\* common.version() and common.authenticate would end
connect(conn, env, version, authenticate) ==
    LET assigned == ReadEnviron(conn, env)
        proxied == [assigned EXCEPT !.common = "ServerProxy", !.models = "ServerProxy"]
    IN IF env # Range(EnvNames)
       THEN [conn |-> assigned, returned |-> "False"]
       ELSE IF version[1] # "served" \/ authenticate[1] # "served"
       THEN [conn |-> proxied, returned |-> "False"]
       ELSE [conn |-> [proxied EXCEPT !.uid = authenticate[2]],
             returned |-> IF Truthy(authenticate[2]) THEN "True" ELSE "False"]

\* get_connection_info(): it raises, or returns the dict with the uid
get_connection_info(conn) ==
    IF ~Truthy(conn.uid)
    THEN <<"raised", NotConnected>>
    ELSE <<"returned", conn.uid>>

\* a method call of the object is logged with what it returned or raised
Logged(b, method, outcome) ==
    [b EXCEPT !.calls = Append(@, method), !.outcomes = Append(@, outcome)]

ConnectCalled ==
    /\ boot.pc = "methods"
    /\ Len(boot.calls) < MaxMethodCalls
    /\ \E version \in VersionOutcomes, authenticate \in AuthenticateOutcomes :
        LET c == connect(odoo_conn, environ, version, authenticate)
        IN /\ odoo_conn' = c.conn
           /\ boot' = [Logged(boot, "connect", <<"returned", c.returned>>)
                           EXCEPT !.connect = c.returned]
    /\ UNCHANGED environ
    /\ LoopWaits

GetConnectionInfoCalled ==
    /\ boot.pc = "methods"
    /\ Len(boot.calls) < MaxMethodCalls
    /\ boot' = Logged(boot, "get_connection_info", get_connection_info(odoo_conn))
    /\ UNCHANGED <<environ, odoo_conn>>
    /\ LoopWaits

\* execute_kw(): it raises before any remote call, or passes the call on to
\* models.execute_kw and returns or raises what that one does
ExecuteKwCalled ==
    /\ boot.pc = "methods"
    /\ Len(boot.calls) < MaxMethodCalls
    /\ IF ~Truthy(odoo_conn.uid)
       THEN boot' = Logged(boot, "execute_kw", <<"raised", NotConnected>>)
       ELSE \E outcome \in TestOutcomes : boot' = Logged(boot, "execute_kw", outcome)
    /\ UNCHANGED <<environ, odoo_conn>>
    /\ LoopWaits

\* odoo_conn = OdooConnection(), and nothing else has run
InitConnection ==
    /\ script = "smart_assistant"
    /\ pc = "input"
    /\ typed = Unbound
    /\ user_request = Unbound
    /\ complexity = Unbound
    /\ request_type = Unbound
    /\ main_task = UnboundTask
    /\ agents_list = UnboundList
    /\ tasks_list = UnboundList
    /\ max_rpm = 0
    /\ cost_monitor = [flash_calls |-> 0, pro_calls |-> 0, total_estimated_cost |-> 0]
    /\ kickoffs = 0
    /\ events = <<>>
    /\ ToolsConstructed
    /\ NoDirect
    /\ environ \in Environs
    /\ odoo_conn = OdooConnectionInit
    /\ boot = [pc |-> "methods", calls |-> <<>>, outcomes |-> <<>>,
               connect |-> Unbound, test_connection |-> Unbound, tools |-> FALSE]

NextConnection ==
    \/ ConnectCalled
    \/ GetConnectionInfoCalled
    \/ ExecuteKwCalled

SpecConnection == InitConnection /\ [][NextConnection]_vars

(***************************************************************************)
(* The classifier of smart_assistant.py on its own: every request over the *)
(* full vocabulary that the loop accepts, routed once                      *)
(***************************************************************************)
Requests == {line \in LinesOver(Vocabulary) : Accept(line).verdict = "accepted"}

\* the loop has just accepted a request
InitClassify ==
    /\ script = "smart_assistant"
    /\ pc = "sleep"
    /\ typed \in Requests
    /\ user_request = Accept(typed).user_request
    /\ complexity = Unbound
    /\ request_type = Unbound
    /\ main_task = UnboundTask
    /\ agents_list = UnboundList
    /\ tasks_list = UnboundList
    /\ max_rpm = 0
    /\ cost_monitor = [flash_calls |-> 0, pro_calls |-> 0, total_estimated_cost |-> 0]
    /\ kickoffs = 0
    /\ events = <<Event("Processing your request: '{user_request}'", user_request)>>
    /\ ToolsConstructed
    /\ NoDirect
    /\ Started

SpecClassify == InitClassify /\ [][Route]_vars

(***************************************************************************)
(* backup_working_versions/smart_assistant_vertex_ai_optimized.py: its     *)
(* classifier, run on the requests that smart_assistant.py classifies      *)
(***************************************************************************)
backup_simple_keywords ==
    {"customer", "who is", "find customer", "contact", "email address", "phone", "mobile",
     "email of", "contact for", "address of", "phone of", "mobile of", "information about",
     "details of", "find", "search for", "look up", "brico", "company", "client",
     "partner", "supplier", "vendor", "contact details", "customer info"}

backup_complex_keywords ==
    {"update product", "draft email", "write email", "create", "generate", "analyze",
     "polish", "improve", "enhance", "compose", "multilingual", "translate"}

backup_email_keywords ==
    {"draft email", "write email", "send email", "compose", "letter", "message"}

backup_product_keywords ==
    {"product", "item", "inventory", "stock", "catalog", "price", "description"}

backup_update_words == {"update", "modify", "change", "edit"}

\* the classifier with the customer keywords checked first
backup_analyze_request_complexity_simple_first(request) ==
    LET request_lower == lower(request)
    IN  IF AnyKeyword(backup_simple_keywords, request_lower)
        THEN <<"simple", "customer_service">>
        ELSE IF AnyKeyword(backup_email_keywords, request_lower)
        THEN <<"complex", "email_communication">>
        ELSE IF AnyKeyword(backup_complex_keywords, request_lower)
        THEN <<"complex", "product_management">>
        ELSE IF AnyKeyword(backup_product_keywords, request_lower)
        THEN IF AnyKeyword(backup_update_words, request_lower)
             THEN <<"complex", "product_management">>
             ELSE <<"simple", "product_search">>
        ELSE <<"simple", "general">>

backup_analyze_request_complexity(request) ==
    LET request_lower == lower(request)
    IN  IF AnyKeyword(backup_email_keywords, request_lower)
        THEN <<"complex", "email_communication">>
        ELSE IF AnyKeyword(backup_complex_keywords, request_lower)
        THEN <<"complex", "product_management">>
        ELSE IF AnyKeyword(backup_product_keywords, request_lower)
        THEN IF AnyKeyword(backup_update_words, request_lower)
             THEN <<"complex", "product_management">>
             ELSE <<"simple", "product_search">>
        ELSE IF AnyKeyword(backup_simple_keywords, request_lower)
        THEN <<"simple", "customer_service">>
        ELSE <<"simple", "general">>

\* main() of the variant from the accepted request to the routing block
BackupAnalyze ==
    /\ script = "smart_assistant_vertex_ai_optimized"
    /\ pc = "sleep"
    /\ LET analysis == backup_analyze_request_complexity(user_request)
       IN /\ complexity' = analysis[1]
          /\ request_type' = analysis[2]
          /\ events' = events \o
                << Event("Processing your request: '{user_request}'", user_request),
                   Event("Complexity: {complexity}", analysis[1]),
                   Event("Type: {request_type}", analysis[2]) >>
    /\ pc' = "routing"
    /\ UNCHANGED <<tools, direct>>
    /\ UNCHANGED <<startup, script, typed, user_request, main_task, agents_list, tasks_list,
                   max_rpm, cost_monitor, kickoffs>>

\* either script has just accepted a request
InitVariants ==
    /\ script \in {"smart_assistant", "smart_assistant_vertex_ai_optimized"}
    /\ pc = "sleep"
    /\ typed \in Requests
    /\ user_request = Accept(typed).user_request
    /\ complexity = Unbound
    /\ request_type = Unbound
    /\ main_task = UnboundTask
    /\ agents_list = UnboundList
    /\ tasks_list = UnboundList
    /\ max_rpm = 0
    /\ cost_monitor = [flash_calls |-> 0, pro_calls |-> 0, total_estimated_cost |-> 0]
    /\ kickoffs = 0
    /\ events = <<>>
    /\ ToolsConstructed
    /\ NoDirect
    /\ Started

NextVariants ==
    \/ Route
    \/ BackupAnalyze

SpecVariants == InitVariants /\ [][NextVariants]_vars

(***************************************************************************)
(* Claims about the classifier and the routing (under SpecClassify)        *)
(***************************************************************************)
\* the keyword sets in the order the claims name them, and their categories
CheckOrder == <<customer_keywords, product_keywords, email_keywords>>
Category == <<"customer_service", "product_management", "email_communication">>

\* a keyword of the i-th set occurs in the lower-cased request
Hit(i) ==
    LET request_lower == lower(user_request)
    IN  \E keyword \in CheckOrder[i] : Contains(keyword, request_lower)

\* the request has been classified and routed
Routed == script = "smart_assistant" /\ pc = "kickoff"

\* C1: the result is the category of the first keyword set, in the order
\* customer, product, email, of which a keyword occurs in the lower-cased
\* request; a request matching several sets gets the earliest of them.
C1_FirstMatchingCategory ==
    Routed =>
        \A i \in 1..3 :
            (Hit(i) /\ \A j \in 1..(i - 1) : ~Hit(j)) => request_type = Category[i]

\* a request with keywords of all three sets was assigned to customer service,
\* one with product and email keywords to product management
C1_Witness ==
    /\ Routed
    /\ Hit(2) /\ Hit(3)
    /\ \/ Hit(1) /\ request_type = "customer_service"
       \/ ~Hit(1) /\ request_type = "product_management"

\* the keyword belongs to the i-th set and to no other
OnlyIn(keyword, i) ==
    keyword \in CheckOrder[i] /\ \A j \in (1..3) \ {i} : keyword \notin CheckOrder[j]

\* C2 as stated: a request that contains a keyword belonging only to one
\* category's set is classified as that category.
C2_ExclusiveKeywordDecides ==
    Routed =>
        \A i \in 1..3 : \A keyword \in CheckOrder[i] :
            (OnlyIn(keyword, i) /\ Contains(keyword, lower(user_request)))
                => request_type = Category[i]

\* C2 amended: a request that contains a keyword belonging only to category
\* A's set, and no keyword of a category checked before A, is classified A.
C2_ExclusiveKeywordDecidesUnlessEarlier ==
    Routed =>
        \A i \in 1..3 : \A keyword \in CheckOrder[i] :
            (/\ OnlyIn(keyword, i)
             /\ Contains(keyword, lower(user_request))
             /\ \A j \in 1..(i - 1) : ~Hit(j))
                => request_type = Category[i]

\* an upper-case EMAIL and nothing checked earlier: classified as e-mail
C2_Witness ==
    /\ Routed
    /\ Contains("EMAIL", user_request)
    /\ ~Hit(1) /\ ~Hit(2)
    /\ request_type = "email_communication"

\* C3: without any keyword the result is 'general', and 'general' is handled
\* by the handler that handles 'customer_service'.
C3_GeneralUsesCustomerServiceHandler ==
    (Routed /\ ~Hit(1) /\ ~Hit(2) /\ ~Hit(3)) =>
        /\ request_type = "general"
        /\ agents_list = <<"customer_service_agent">>
        /\ main_task.agent = "customer_service_agent"
        /\ agents_list = Dispatch("customer_service", user_request).agents_list

\* a request without keywords was routed
C3_Witness ==
    /\ Routed
    /\ ~Hit(1) /\ ~Hit(2) /\ ~Hit(3)
    /\ request_type = "general"
    /\ \E i \in 1..Len(events) : events[i].fmt = "Routing to General Assistance..."

\* the one handler of each category
HandlerOf ==
    [customer_service |-> "customer_service_agent",
     product_management |-> "product_specialist",
     email_communication |-> "email_communication_agent",
     general |-> "customer_service_agent"]

\* C4: whatever the category, the crew has exactly one agent and one task, the
\* task is that agent's, and the agent is a function of the category alone.
C4_OneHandlerPerCategory ==
    Routed =>
        /\ Len(agents_list) = 1
        /\ Len(tasks_list) = 1
        /\ tasks_list[1] = main_task
        /\ tasks_list[1].agent = agents_list[1]
        /\ agents_list[1] = HandlerOf[request_type]

\* a product request was handed to the product specialist alone
C4_Witness ==
    /\ Routed
    /\ request_type = "product_management"
    /\ agents_list = <<"product_specialist">>
    /\ tasks_list[1].description.arg = user_request

(***************************************************************************)
(* Claims about the interactive loops (under Spec)                         *)
(***************************************************************************)
\* some event of the current iteration has this format
Printed(fmt) == \E i \in 1..Len(events) : events[i].fmt = fmt

\* the classifier ran in the current iteration
Classified ==
    \/ Printed("Request type identified: {request_type}")
    \/ Printed("Request analysis: {complexity} {request_type}")

\* the current iteration got its line from input()
ReadLine ==
    /\ events # <<>>
    /\ events[1].fmt \in {"Goodbye!", "Please enter your request.",
                          "Processing your request: '{user_request}'"}

\* the line is empty or whitespace only
Blank(s) == \A i \in 1..Len(s) : CharAt(s, i) \in Whitespace

\* the line is 'exit' or 'quit' in any case, with only whitespace around it
ExitWord(s) ==
    \E i \in 1..Len(s) : \E j \in i..Len(s) :
        /\ Blank(SubSeq(s, 1, i - 1))
        /\ Blank(SubSeq(s, j + 1, Len(s)))
        /\ lower(SubSeq(s, i, j)) \in {"exit", "quit"}

\* what each line that can be typed is: blank, an exit word, or a request
LineKind ==
    [line \in TypedLines |->
        IF Blank(line) THEN "blank" ELSE IF ExitWord(line) THEN "exit" ELSE "request"]

\* C5: the classifier and the handlers run only for lines that are neither
\* blank nor exit/quit; a blank line is rejected without classification and
\* the loop prompts again; exit/quit ends the loop without classification.
C5_OnlyAcceptedLinesAreClassified ==
    /\ (Classified \/ kickoffs > 0 \/ pc \in {"sleep", "kickoff", "cooldown"})
          => (ReadLine /\ LineKind[typed] = "request")
    /\ (ReadLine /\ LineKind[typed] = "blank")
          => (pc = "input" /\ events = <<Event("Please enter your request.", "")>>)
    /\ (ReadLine /\ LineKind[typed] = "exit")
          => (pc = "done" /\ events[1].fmt = "Goodbye!" /\ ~Classified /\ kickoffs = 0)

\* a line of whitespace was rejected and the loop awaits the next line
C5_Witness ==
    /\ ReadLine
    /\ typed # "" /\ LineKind[typed] = "blank"
    /\ pc = "input"
    /\ ~Classified
    /\ Printed("Please enter your request.")

\* the except clause reported an error in the current iteration
Failed ==
    \/ Printed("An error occurred: {e}")
    \/ Printed("Rate limit exceeded. Waiting 30 seconds...")

\* C6: after a handler failure the loop reports the error and awaits the next
\* request (after the cooldown, for a rate limit); the loop ends only on
\* exit/quit or a keyboard interrupt.
C6_HandlerFailureKeepsLoop ==
    /\ (kickoffs > 0 /\ Failed /\ pc # "cooldown")
          => \/ /\ pc = "input"
                /\ events[Len(events)].fmt = "Please try again with a different request."
             \/ /\ pc = "done"
                /\ Printed("Traceback: KeyboardInterrupt")
    /\ pc = "done"
          => \/ events[1].fmt = "Goodbye!" /\ LineKind[typed] = "exit"
             \/ Printed("Operation cancelled by user. Goodbye!")
             \/ Printed("Traceback: KeyboardInterrupt")

\* the crew failed with an ordinary error and the loop awaits the next request
C6_Witness ==
    /\ kickoffs = 1
    /\ pc = "input"
    /\ \E i \in 1..Len(events) :
          events[i] = Event("An error occurred: {e}", "Connection refused")

\* the except clause took the rate-limit branch in the current iteration
RateLimited == Printed("Rate limit exceeded. Waiting 30 seconds...")

Failures == {i \in 1..Len(rpc_outcomes) : rpc_outcomes[i][1] = "raised"}

\* the templates of the results that report a failed search
ErrorTemplates == {ErrorSearchingCustomer("").fmt, ErrorSearchingProduct("").fmt}

\* C8: no execute_kw exception leaves a tool's _run(): once a call of the run
\* has raised, the run is never left by an exception, and when it is over it
\* has returned a result
C8_NoTransportExceptionEscapes ==
    Failures # {} =>
        /\ tool_pc # "raised"
        /\ tool_pc \in Resting => (tool_pc = "returned" /\ tool_return.fmt # Unbound)

\* an update of two languages in which the write and the translation search
\* of each language raised, and both verification reads too
C8_Witness ==
    /\ tool_locals.tool = "OdooMultilingualProductUpdater"
    /\ tool_pc = "returned"
    /\ Len(rpc_outcomes) = 6
    /\ Cardinality(Failures) = 6

\* the search of the current _run() was served and no record of the table
\* satisfies its domain
SearchFoundNothing ==
    /\ tool_locals.tool \in {"OdooCustomerInfoTool", "OdooMultilingualProductFinder"}
    /\ Len(rpc_outcomes) >= 1
    /\ rpc_outcomes[1][1] = "served"
    /\ \A r \in Table(store, rpc_calls[1].model) :
          ~Satisfies(r, rpc_calls[1].args.domain)

\* C9: a search by name that finds no record returns the not-found result with
\* the search term as it was passed, which is not the error result, and the
\* run makes no call after the search
C9_NoMatchNamesTheTerm ==
    SearchFoundNothing =>
        /\ tool_pc = "returned"
        /\ Len(rpc_calls) = 1
        /\ tool_return.fmt \notin ErrorTemplates
        /\ IF tool_locals.tool = "OdooCustomerInfoTool"
           THEN /\ tool_return.fmt = "No customer found matching '{customer_name}'. Please check the spelling or try a different name."
                /\ tool_return.args.customer_name = tool_locals.customer_name
           ELSE /\ tool_return.fmt = "No products found matching '{product_name}'. Try a broader search term."
                /\ tool_return.args.product_name = tool_locals.product_name

\* a misspelled customer name was searched and not found
C9_Witness ==
    /\ SearchFoundNothing
    /\ tool_locals.tool = "OdooCustomerInfoTool"
    /\ tool_locals.customer_name = "Marnia"
    /\ tool_pc = "returned"

\* the customer lookup read the contact and its read of the orders raised
OrderReadRaised ==
    /\ tool_locals.tool = "OdooCustomerInfoTool"
    /\ Len(rpc_outcomes) = 2
    /\ rpc_outcomes[1][1] = "served"
    /\ rpc_outcomes[2][1] = "raised"

\* C10: when the contact was read and the read of its orders raised, the
\* lookup returns the name, email and phone of a contact that matches the
\* search, with the note that carries the error, and not the search error
C10_ContactWithoutOrders ==
    OrderReadRaised =>
        /\ tool_pc = "returned"
        /\ tool_return.fmt \notin ErrorTemplates
        /\ tool_return.fmt = "Customer: {name}\nEmail: {email}\nPhone: {phone}\nNote: Could not retrieve order history due to: {order_error}"
        /\ tool_return.args.order_error = rpc_outcomes[2][2]
        /\ \E p \in store.res_partner :
              /\ Satisfies(p, rpc_calls[1].args.domain)
              /\ tool_return.args.name = p.name
              /\ tool_return.args.email = p.email
              /\ tool_return.args.phone = p.phone

\* Brico NV was found and the read of its orders was refused
C10_Witness ==
    /\ OrderReadRaised
    /\ tool_locals.customer_name = "brico nv"
    /\ rpc_outcomes[2][2] = "<Fault 3: 'Access Denied'>"
    /\ tool_pc = "returned"

\* the contact lookup ended after its search of res.partner was served
LookupServed ==
    /\ tool_locals.tool = "OdooCustomerInfoTool"
    /\ tool_pc = "returned"
    /\ rpc_outcomes[1][1] = "served"

\* the results of the contact lookup that carry a contact
ContactBlocks ==
    {"Customer Information:",
     "Customer: {name}\nEmail: {email}\nPhone: {phone}\nNote: Could not retrieve order history due to: {order_error}"}

\* C11 as stated: whenever the store holds a contact whose name contains the
\* search term (not empty), case ignored, the contact lookup returns a contact
\* block
C11_ContainedNameIsFound ==
    (/\ LookupServed
     /\ tool_locals.customer_name # ""
     /\ \E p \in store.res_partner :
           Contains(lower(tool_locals.customer_name), lower(p.name)))
        => tool_return.fmt \in ContactBlocks

(***************************************************************************)
(* Claims about the direct-tool assistant (SpecDirect)                     *)
(***************************************************************************)
\* C12 as stated: for the request 'Who is customer Marina?' the assistant
\* takes the customer branch and calls the contact lookup with 'Marina'
C12_MarinaIsTheSearchTerm ==
    (typed = "Who is customer Marina?" /\ pc = "tool") =>
        /\ request_type = "customer_service"
        /\ tool_locals.tool = "OdooCustomerInfoTool"
        /\ tool_locals.customer_name = "Marina"
        /\ rpc_calls[1].args.domain = <<<<"name", "=ilike", "Marina">>>>

(***************************************************************************)
(* Claims about the lookups on a crowded database (SpecLookups)            *)
(***************************************************************************)
\* the product lookup has returned a list of products
ProductsReported ==
    /\ tool_locals.tool = "OdooMultilingualProductFinder"
    /\ tool_pc = "returned"
    /\ tool_return.fmt = "Found {len(product_data)} product(s) with multilingual data:"

\* the contact lookup has returned a contact with a list of orders
OrdersReported ==
    /\ tool_locals.tool = "OdooCustomerInfoTool"
    /\ tool_pc = "returned"
    /\ tool_return.fmt = "Customer Information:"
    /\ tool_return.args.orders.fmt = "Recent Orders ({len(order_data)}):"

\* C13: however many records match, the product lookup reports at most 5
\* products, and the contact lookup reports one stored contact with at most 5
\* of its orders, in descending order of date, none of the orders left out
\* being more recent than one reported
C13_LookupsAreBounded ==
    /\ ProductsReported =>
          /\ tool_return.args.count <= 5
          /\ Len(tool_return.args.products) = tool_return.args.count
    /\ OrdersReported =>
          LET rows == tool_return.args.orders.args
              listed == {rows[i].name : i \in 1..Len(rows)}
          IN /\ Len(rows) <= 5
             /\ \A i, j \in 1..Len(rows) : i < j => rows[i].date >= rows[j].date
             /\ \E p \in store.res_partner :
                   /\ p.name = tool_return.args.name
                   /\ \A o \in store.sale_order :
                         /\ o.name \in listed => o.partner_id = p.id
                         /\ (o.partner_id = p.id /\ o.name \notin listed) =>
                               \A i \in 1..Len(rows) : o.date_order.day <= rows[i].date

\* five of the six products that match garden% are reported
C13_Witness ==
    /\ ProductsReported
    /\ tool_return.args.count = 5
    /\ Cardinality({p \in store.product_product :
                       Satisfies(p, rpc_calls[1].args.domain)}) = 6

(***************************************************************************)
(* Claims about two contact lookups in a row                               *)
(***************************************************************************)
\* the contact lookup has found a contact and returned
ContactFound ==
    /\ tool_locals.tool = "OdooCustomerInfoTool"
    /\ tool_pc = "returned"
    /\ Len(rpc_calls) = 2

\* the contact lookup before this one found a contact under the same name
SameNameTwice ==
    /\ ContactFound
    /\ previous_contact.customer_name = tool_locals.customer_name

\* the stored contacts the name of this lookup matches
MatchingContacts ==
    {p \in store.res_partner : Satisfies(p, rpc_calls[1].args.domain)}

WritesAttempted ==
    /\ tool_locals.tool = "OdooMultilingualProductUpdater"
    /\ tool_pc \in {"verification", "returned"}

\* the calls of this run that write a text as the description under a language context
ContextWritesOf(text) ==
    {k \in 1..Len(rpc_calls) :
        /\ rpc_calls[k].model = "product.product"
        /\ rpc_calls[k].method = "write"
        /\ rpc_calls[k].args.ids = <<tool_locals.product_id>>
        /\ rpc_calls[k].args.values = [description_sale |-> text]
        /\ rpc_calls[k].kwargs.context.lang # ""}

\* C15: for each language of the input map, English, Dutch or French, the
\* updater issues a write of that language's description under that
\* language's context code
C15_EveryLanguageIsWritten ==
    WritesAttempted =>
        \A n \in 1..Len(tool_locals.descriptions) :
            LET item == tool_locals.descriptions[n]
            IN \E k \in ContextWritesOf(item[2]) :
                  item[1] \in DOMAIN language_mapping =>
                      rpc_calls[k].kwargs.context.lang = language_mapping[item[1]]

\* a write of this run failed: it raised, or it was answered False
WriteFailedAt(k) ==
    /\ rpc_calls[k].method = "write"
    /\ rpc_outcomes[k][1] \in {"raised", "refused"}

ResultEntries ==
    {"(v) Successfully updated {lang_name} description",
     "(x) Failed to update {lang_name} description",
     "(x) Unknown language: {lang_name}"}

\* C16: whatever becomes of the writes of the other languages, a write under
\* its context is attempted for every language of the input map that the
\* updater knows, and the report holds one success or failure entry per
\* language of the input map, in the order of the map
C16_LanguagesAreIndependent ==
    WritesAttempted =>
        LET items == tool_locals.descriptions
            results == tool_locals.results
        IN /\ \A n \in 1..Len(items) :
                 items[n][1] \in DOMAIN language_mapping =>
                     \E k \in ContextWritesOf(items[n][2]) :
                         rpc_calls[k].kwargs.context.lang = language_mapping[items[n][1]]
           /\ Len(results) = Len(items)
           /\ \A n \in 1..Len(items) :
                 /\ results[n].fmt \in ResultEntries
                 /\ results[n].args = items[n][1]

\* the first language's write under context failed and so did its update,
\* and the second language's write was attempted after it
C16_Witness ==
    /\ WritesAttempted
    /\ Len(tool_locals.descriptions) = 2
    /\ WriteFailedAt(1)
    /\ tool_locals.results[1].fmt = "(x) Failed to update {lang_name} description"
    /\ \E k \in ContextWritesOf(tool_locals.descriptions[2][2]) : k > 1

\* _run of the updater has returned its report
UpdateReported ==
    /\ tool_locals.tool = "OdooMultilingualProductUpdater"
    /\ tool_pc = "returned"

\* the calls of this run that read the description back under a language context
ReadsBack ==
    {k \in 1..Len(rpc_calls) :
        /\ rpc_calls[k].model = "product.product"
        /\ rpc_calls[k].method = "read"
        /\ rpc_calls[k].args.ids = <<tool_locals.product_id>>
        /\ rpc_calls[k].kwargs.context.lang # ""}

\* the lines of the verification block that are about a language
VerificationEntries(name) ==
    {m \in 1..Len(tool_locals.verification) : tool_locals.verification[m].args[1] = name}

\* C17: after the writes the updater reads the description back for each
\* language of the input map, and its report holds a verified or unverified
\* entry for every language of the input map
C17_EveryLanguageIsVerified ==
    UpdateReported =>
        \A n \in 1..Len(tool_locals.descriptions) :
            LET name == tool_locals.descriptions[n][1]
            IN /\ \E k \in ReadsBack :
                     /\ name \in DOMAIN language_mapping =>
                            rpc_calls[k].kwargs.context.lang = language_mapping[name]
                     /\ \A w \in ContextWritesOf(tool_locals.descriptions[n][2]) : w < k
               /\ VerificationEntries(name) # {}
               /\ tool_return.args[Len(tool_return.args)].args = tool_locals.verification

\* the items of the input map that _verify_updates does not skip
VerifiedItems ==
    SelectSeq(tool_locals.descriptions, LAMBDA item : item[1] \in DOMAIN language_mapping)

\* the read behind line m of the verification block: how it ended, and what
\* the store holds for it (no write follows the reads)
ReadBack(m) ==
    LET k == Len(rpc_calls) - Len(tool_locals.verification) + m
    IN [outcome |-> rpc_outcomes[k][1], value |-> read(store, rpc_calls[k]).value]

Verified(m) == tool_locals.verification[m].fmt = "(v) {lang_name}: Update verified"

Unverified(m) ==
    tool_locals.verification[m].fmt \in
        {"(x) {lang_name}: Update failed - Expected length {len(expected_desc)}, got length {len(actual_desc)}",
         "(x) {lang_name}: Could not read back data",
         "(x) {lang_name}: Verification error - {e}"}

ConnectReturned == boot.pc \notin {"connect", "version", "authenticate"}

\* C19: connect() calls version first and authenticate after it, never
\* authenticate when the version call failed; it returns True only when
\* authenticate yields a non-empty uid, and it returns False, without
\* raising, in every other case
C19_ConnectInTwoSteps ==
    /\ \A k \in 1..Len(boot.calls) :
          /\ boot.calls[k] = "version" => k = 1
          /\ boot.calls[k] = "authenticate" =>
                /\ k = 2
                /\ boot.calls[1] = "version"
                /\ boot.outcomes[1][1] = "served"
    /\ Len(boot.calls) >= 1 => boot.calls[1] = "version"
    /\ ConnectReturned =>
          /\ boot.connect \in {"True", "False"}
          /\ boot.connect = "True" <=>
                /\ Len(boot.outcomes) >= 2
                /\ boot.outcomes[2][1] = "served"
                /\ Truthy(boot.outcomes[2][2])
                /\ odoo_conn.uid = boot.outcomes[2][2]

\* the version call failed: authenticate was not called and connect() gave False
C19_Witness ==
    /\ ConnectReturned
    /\ boot.calls = <<"version">>
    /\ boot.outcomes[1][1] = "raised"
    /\ boot.connect = "False"

\* main() has read, classified or dispatched something
LoopTouched ==
    \/ pc # "input"
    \/ typed # Unbound
    \/ request_type # Unbound
    \/ kickoffs > 0
    \/ events # <<>>

\* C20: no tool is constructed and no request is read, classified or
\* dispatched unless connect() and then test_connection() both returned
\* True; when either returns False the script exits before the loop
C20_FailFast ==
    /\ (boot.tools \/ LoopTouched \/ boot.pc = "main") =>
          /\ boot.connect = "True"
          /\ boot.test_connection = "True"
          /\ boot.calls = <<"version", "authenticate", "execute_kw">>
    /\ ("False" \in {boot.connect, boot.test_connection}) =>
          /\ boot.pc = "exited"
          /\ ~boot.tools
          /\ ~LoopTouched
    /\ boot.test_connection # Unbound => boot.connect = "True"

\* connect() gave True, test_connection() gave False, and the script is over
C20_Witness ==
    /\ boot.connect = "True"
    /\ boot.test_connection = "False"
    /\ boot.pc = "exited"

(***************************************************************************)
(* Claims about what the tools do to the store (SpecTools)                 *)
(***************************************************************************)
Ids(records) == {r.id : r \in records}

\* the calls of this run that have ended
EndedCalls == 1..Len(rpc_outcomes)

\* C21: no sequence of tool runs creates or destroys a record of the store:
\* the tools only read records and write fields of records that exist
C21_NoRecordCreatedOrDestroyed ==
    /\ \A k \in 1..Len(rpc_calls) : rpc_calls[k].method \in {"search_read", "read", "write"}
    /\ \A table \in DOMAIN Database : Ids(store[table]) = Ids(Database[table])

\* C21, amended: no tool run destroys a record, and none creates a contact,
\* an order or a product; the updater creates a translation record, and only
\* right after its search found none for the product and the language
C21_OnlyTranslationsAreCreated ==
    /\ \A k \in 1..Len(rpc_calls) :
          /\ rpc_calls[k].method \in {"search_read", "read", "write", "create"}
          /\ rpc_calls[k].method = "create" =>
                /\ tool_locals.tool = "OdooMultilingualProductUpdater"
                /\ rpc_calls[k].model = "ir.translation"
                /\ rpc_calls[k - 1].model = "ir.translation"
                /\ rpc_calls[k - 1].method = "search_read"
                /\ rpc_outcomes[k - 1][1] = "served"
                /\ k \in EndedCalls =>
                      Cardinality({t \in store.ir_translation :
                                      /\ t.res_id = rpc_calls[k].args.values.res_id
                                      /\ t.lang = rpc_calls[k].args.values.lang})
                          = IF rpc_outcomes[k][1] = "served" THEN 1 ELSE 0
    /\ \A table \in {"res_partner", "sale_order", "product_product"} :
          Ids(store[table]) = Ids(Database[table])
    /\ Ids(Database.ir_translation) \subseteq Ids(store.ir_translation)

\* the updater has created a translation record
C21_Witness ==
    /\ tool_locals.tool = "OdooMultilingualProductUpdater"
    /\ \E k \in EndedCalls :
          /\ rpc_calls[k].method = "create"
          /\ rpc_outcomes[k][1] = "served"
    /\ Ids(store.ir_translation) # Ids(Database.ir_translation)

(***************************************************************************)
(* Claims about the lookups as a sequence (SpecLookups)                    *)
(***************************************************************************)
\* C22: whatever sequence of contact and product lookups runs, failing ones
\* and empty-handed ones included, the calls issued are search_read and read
\* only, and every record of the store stays as it was
C22_LookupsOnlyRead ==
    /\ \A k \in 1..Len(rpc_calls) : rpc_calls[k].method \in {"search_read", "read"}
    /\ tool_locals.tool \in {Unbound, "OdooCustomerInfoTool", "OdooMultilingualProductFinder"}
    /\ store = CrowdedDatabase

\* a product lookup has read descriptions, and its last read failed
C22_Witness ==
    /\ tool_locals.tool = "OdooMultilingualProductFinder"
    /\ tool_pc = "returned"
    /\ Len(rpc_calls) > 2
    /\ rpc_calls[Len(rpc_calls)].method = "read"
    /\ rpc_outcomes[Len(rpc_calls)][1] = "raised"

(***************************************************************************)
(* Claims about the order of the updater's calls (SpecTools)               *)
(***************************************************************************)
UpdaterRuns == tool_locals.tool = "OdooMultilingualProductUpdater"

\* C23: the updater's calls run one at a time; every verification read is
\* issued after the write attempts of all languages of the map have ended,
\* and nothing but verification reads follows the first of them
C23_WriteThenVerify ==
    UpdaterRuns =>
        /\ Len(rpc_calls) - Len(rpc_outcomes) \in {0, 1}
        /\ \A k \in 1..Len(rpc_calls) :
              rpc_calls[k].method = "read" =>
                  /\ tool_locals.i > Len(tool_locals.descriptions)
                  /\ Len(tool_locals.results) = Len(tool_locals.descriptions)
                  /\ \A j \in 1..Len(rpc_calls) :
                        /\ j < k => j \in EndedCalls
                        /\ j > k => rpc_calls[j].method = "read"

\* two languages were written and then two were read back
C23_Witness ==
    /\ UpdateReported
    /\ Len(tool_locals.verification) = 2
    /\ rpc_calls[1].method = "write"
    /\ rpc_calls[Len(rpc_calls) - 2].method # "read"
    /\ rpc_calls[Len(rpc_calls) - 1].method = "read"

(***************************************************************************)
(* Claims about the classifier variants (SpecVariants)                     *)
(***************************************************************************)
\* the request holds a customer keyword of smart_assistant.py and an e-mail
\* keyword of the Vertex variant
EmailAndCustomer ==
    LET request_lower == lower(user_request)
    IN /\ AnyKeyword(customer_keywords, request_lower)
       /\ AnyKeyword(backup_email_keywords, request_lower)

\* C24: the variants check the categories in different orders and are not
\* one function: a request with an e-mail keyword and a customer keyword,
\* such as one with 'send email' and 'customer', is customer_service for
\* smart_assistant.analyze_request_type and email_communication for
\* analyze_request_complexity of smart_assistant_vertex_ai_optimized
C24_VariantsDisagree ==
    EmailAndCustomer =>
        /\ (script = "smart_assistant" /\ pc = "kickoff")
              => request_type = "customer_service"
        /\ (script = "smart_assistant_vertex_ai_optimized" /\ pc = "routing")
              => /\ request_type = "email_communication"
                 /\ complexity = "complex"
                 /\ analyze_request_type(user_request) = "customer_service"

\* a request with 'send email' and 'customer' went through the variant
C24_Witness ==
    /\ script = "smart_assistant_vertex_ai_optimized"
    /\ pc = "routing"
    /\ Contains("send email", lower(user_request))
    /\ Contains("customer", lower(user_request))
    /\ request_type = "email_communication"
    /\ analyze_request_type(user_request) = "customer_service"

(***************************************************************************)
(* Claims about the AI enhancement of the direct-tool assistant            *)
(* (SpecDirect)                                                            *)
(***************************************************************************)
\* what the loop printed last
Shown == events[Len(events)]

\* a customer or product lookup was enhanced and its final result printed
EnhancedLookupShown ==
    /\ script = "smart_assistant_vertex_ai_fixed"
    /\ pc = "input"
    /\ project_id # ""
    /\ request_type \in {"customer_service", "product_management"}
    /\ tool_pc = "returned"
    /\ events # <<>>
    /\ Shown.fmt = "print(final_result)"

\* C25: when the generation call of the AI enhancement raises, the final
\* result shown is the raw tool result: a customer or product lookup shows
\* the model's text or else its tool output
C25_FailedEnhancementShowsToolResult ==
    EnhancedLookupShown =>
        (Shown.arg.fmt # "response.text" => Shown.arg = tool_return)

(***************************************************************************)
(* Claims about the routing of the cost-optimized assistant (Spec)         *)
(***************************************************************************)
\* the optimized loop has routed the request it accepted
OptimizedRouted ==
    /\ script = "smart_assistant_optimized"
    /\ pc = "sleep"

\* the request asks to draft or write an e-mail and holds no customer keyword
AsksForEmail ==
    LET request_lower == lower(user_request)
    IN /\ Contains("email", request_lower)
       /\ Contains("draft", request_lower) \/ Contains("write", request_lower)
       /\ ~AnyKeyword(simple_keywords, request_lower)

\* C26: in the cost-optimized assistant every request that asks to draft or
\* write an e-mail is classified ('complex', 'email_communication') and goes
\* to the Pro-LLM e-mail agent, and customer lookups go to the Flash-LLM
\* customer agent
C26_EmailRequestsGoToPro ==
    OptimizedRouted =>
        /\ AsksForEmail =>
              /\ complexity = "complex"
              /\ request_type = "email_communication"
              /\ agents_list = <<"email_agent_pro">>
        /\ request_type = "customer_service" =>
              /\ complexity = "simple"
              /\ agents_list = <<"customer_agent_flash">>

(***************************************************************************)
(* Claims about the two ways of writing a translation (SpecTools)          *)
(***************************************************************************)
\* the calls of this run that are method 1 for a language: the write under
\* its context
Method1(lang_code) ==
    {k \in 1..Len(rpc_calls) :
        /\ rpc_calls[k].model = "product.product"
        /\ rpc_calls[k].method = "write"
        /\ rpc_calls[k].kwargs.context.lang = lang_code}

\* the calls of this run that open method 2 for a language: the search of
\* its translation record
Method2(lang_code) ==
    {k \in 1..Len(rpc_calls) :
        /\ rpc_calls[k].model = "ir.translation"
        /\ rpc_calls[k].method = "search_read"
        /\ rpc_calls[k].args.domain[3] = <<"lang", "=", lang_code>>}

\* the write under context reported failure: it raised, on the wire or
\* because the product does not exist, or it was answered False
Method1Failed(k) ==
    \/ rpc_outcomes[k][1] \in {"raised", "refused"}
    \/ /\ rpc_outcomes[k][1] = "served"
       /\ tool_locals.product_id \notin Ids(store.product_product)

\* C27: for each language, method 2 is attempted exactly when method 1
\* reported failure, each method at most once, and never after a
\* verification read
C27_Method2IffMethod1Failed ==
    UpdaterRuns =>
        /\ \A lang_code \in {language_mapping[name] : name \in DOMAIN language_mapping} :
              /\ Cardinality(Method1(lang_code)) <= 1
              /\ Cardinality(Method2(lang_code)) <= 1
              /\ \A k \in Method1(lang_code) \cap EndedCalls :
                    Method1Failed(k) <=> (k + 1) \in Method2(lang_code)
              /\ \A k \in Method2(lang_code) :
                    /\ (k - 1) \in Method1(lang_code)
                    /\ Method1Failed(k - 1)
        /\ \A k \in 1..Len(rpc_calls) :
              rpc_calls[k].model = "ir.translation" =>
                  /\ \A j \in 1..k : rpc_calls[j].method # "read"
                  /\ rpc_calls[k].method \in {"write", "create"} =>
                        /\ rpc_calls[k - 1].model = "ir.translation"
                        /\ rpc_calls[k - 1].method = "search_read"

\* the first language's write was answered True without effect: it is
\* reported unverified and method 2 was not tried for it; the second
\* language's write was answered False and method 2 followed
C27_Witness ==
    /\ UpdateReported
    /\ Len(tool_locals.verification) = 2
    /\ rpc_outcomes[1][1] = "unapplied"
    /\ ~Verified(1)
    /\ rpc_calls[2].model = "product.product"
    /\ rpc_outcomes[2][1] = "refused"
    /\ rpc_calls[3].model = "ir.translation"

(***************************************************************************)
(* Claims about the two halves of the update report (SpecTools)            *)
(***************************************************************************)
\* the report holds the success entry for the language of item n
SuccessEntry(n) ==
    tool_locals.results[n].fmt = "(v) Successfully updated {lang_name} description"

\* a write for the language was answered with a truthy value: its write
\* under context, or after the failure of that one the write or the creation
\* of its translation record
WriteAnswered(lang_code) ==
    \E k \in Method1(lang_code) :
        \/ ~Method1Failed(k)
        \/ /\ (k + 1) \in Method2(lang_code)
           /\ k + 2 <= Len(rpc_calls)
           /\ rpc_calls[k + 2].model = "ir.translation"
           /\ rpc_outcomes[k + 2][1] = "served"

\* C28: for every language, if the report holds the entry 'Successfully
\* updated <language> description' then the verification entry of that
\* language in the same report is 'verified'
C28_SuccessMeansVerified ==
    UpdateReported =>
        \A n \in 1..Len(tool_locals.results) :
            SuccessEntry(n) =>
                /\ VerificationEntries(tool_locals.results[n].args) # {}
                /\ \A m \in VerificationEntries(tool_locals.results[n].args) : Verified(m)

\* C28, amended: the two halves of the report are settled apart. The success
\* entry of a language is there exactly when one of its writes was answered
\* with a truthy value, every known language has one verification entry, and
\* a 'verified' entry is there only when the value read back equals the
\* submitted one
C28_SuccessMeansWriteAnswered ==
    UpdateReported =>
        \A n \in 1..Len(tool_locals.descriptions) :
            LET name == tool_locals.descriptions[n][1]
            IN name \in DOMAIN language_mapping =>
                  /\ tool_locals.results[n].args = name
                  /\ SuccessEntry(n) <=> WriteAnswered(language_mapping[name])
                  /\ Cardinality(VerificationEntries(name)) = 1
                  /\ \A m \in VerificationEntries(name) :
                        Verified(m) =>
                            /\ ReadBack(m).outcome = "served"
                            /\ strip(Or(ReadBack(m).value[1].description_sale, ""))
                                   = strip(tool_locals.descriptions[n][2])

\* a report with the success entry of a language next to its unverified
\* entry: the read came back with another value
C28_Witness ==
    /\ UpdateReported
    /\ Len(tool_locals.results) >= 1
    /\ Len(tool_locals.verification) >= 1
    /\ SuccessEntry(1)
    /\ tool_locals.verification[1].args[1] = tool_locals.results[1].args
    /\ ReadBack(1).outcome = "served"
    /\ Unverified(1)

(***************************************************************************)
(* Claims about repeated connect() calls (SpecConnection)                  *)
(***************************************************************************)
\* what the most recent connect() before call n returned, if there was one
LastConnect(n) ==
    LET before == {m \in 1..(n - 1) : boot.calls[m] = "connect"}
    IN IF before = {} THEN Unbound
       ELSE boot.outcomes[CHOOSE m \in before : \A o \in before : o <= m][2]

\* C29: after any sequence of connect() calls on one OdooConnection,
\* get_connection_info and execute_kw do not raise 'Not connected' if and
\* only if the most recent connect() returned True
C29_UsableIffLastConnectSucceeded ==
    boot.pc = "methods" =>
        \A n \in 1..Len(boot.calls) :
            /\ boot.calls[n] \in {"get_connection_info", "execute_kw"}
            /\ LastConnect(n) # Unbound
            => (boot.outcomes[n] # <<"raised", NotConnected>> <=> LastConnect(n) = "True")

(***************************************************************************)
(* Claims about the task the cost-optimized loop runs (Spec)               *)
(***************************************************************************)
\* the optimized loop is past its routing block: it sleeps before the crew
\* is built, or the crew runs
OptimizedCrewToRun ==
    /\ script = "smart_assistant_optimized"
    /\ pc \in {"sleep", "kickoff"}

\* the routing block failed on a main_task that no branch had bound
UnboundTaskReported ==
    \E n \in 1..Len(events) :
        /\ events[n].fmt = "An error occurred: {e}"
        /\ events[n].arg = "cannot access local variable 'main_task'"

\* C30: in the cost-optimized loop a complex request is an e-mail or a
\* product request, the routing block never fails on an unbound main_task,
\* and the task and agent of the crew are the ones built from the request
\* in hand
C30_TaskIsOfThisRequest ==
    script = "smart_assistant_optimized" =>
        /\ ~UnboundTaskReported
        /\ OptimizedCrewToRun =>
              /\ <<complexity, request_type>> = analyze_request_complexity(user_request)
              /\ complexity = "complex" =>
                    request_type \in {"email_communication", "product_management"}
              /\ main_task # UnboundTask
              /\ main_task.description.arg = user_request
              /\ main_task = OptimizedDispatch(complexity, request_type, user_request,
                                               UnboundTask, UnboundList).main_task
              /\ tasks_list = <<main_task>>
              /\ agents_list = <<main_task.agent>>
              /\ main_task.agent =
                    IF complexity = "simple" THEN "customer_agent_flash"
                    ELSE IF request_type = "email_communication" THEN "email_agent_pro"
                    ELSE "product_agent_pro"

\* the crew runs for a complex request that came after a simple one, with
\* the task built from the complex request
C30_Witness ==
    /\ script = "smart_assistant_optimized"
    /\ pc = "kickoff"
    /\ cost_monitor.flash_calls = 1
    /\ cost_monitor.pro_calls = 1
    /\ complexity = "complex"
    /\ main_task.description.arg = user_request
    /\ main_task.agent \in {"email_agent_pro", "product_agent_pro"}

====
